---------------------------- MODULE Spec2Model ----------------------------
(***************************************************************************)
(* Pedestrian-agent city simulation of frontend/src/components/CitySim.tsx *)
(* : road-graph construction, shade-biased A* routing, per-tick agent      *)
(* steering with obstacle probes and rerouting, and the animation loop.    *)
(*                                                                         *)
(* Numbers.  JavaScript doubles are modelled in fixed point: a length or a *)
(* coordinate is an integer count of 1/1000 world units, a time an integer *)
(* count of milliseconds.  A square root is rounded up to 1/1000 unit.     *)
(* A vector is a record [x, y, z]; y is "up".                              *)
(***************************************************************************)
EXTENDS Integers, Sequences, FiniteSets, TLC

VARIABLES
    stage,        \* position of the setup: "load" -> "build" -> "route" -> "routed" or "run"
    world,        \* the scene the shade rays and the obstacle probes are cast against
    geo,          \* the road polylines handed to the road loader (sequences of points)
    ALL_CURVES,   \* the curves kept by the loader (CitySim.tsx:1130)
    ROAD_GRAPH,   \* the road graph (CitySim.tsx:1323)
    resolved,     \* history: every findOrCreateNode call of the build, as [p, node]
    lastRoute,    \* history: the last findRouteOnRoads call and its result
    agents,       \* the Agent objects, in array order
    pausedRef, autoRerouteRef, speedRef, shadeRef,   \* UI values read by the loop
    rerouteAcc,   \* the periodic reroute accumulator (CitySim.tsx:1454), ms
    frameDt,      \* milliseconds between two animation frames of this display
    rng,          \* Math.random: the stream of values and the position in it
    raycaster,    \* the ray of the one THREE.Raycaster of the component (CitySim.tsx:948)
    routeEditMode, \* the React state of the manual route picking (CitySim.tsx:720)
    pickSource,   \* the source point picked by the first click (CitySim.tsx:1392)
    rounds,       \* history: how often the periodic reroute has fired
    ticks,        \* history: how many update calls the agent driver has made
    roadsFetch,   \* what the request for the road data comes back with
    mounted,      \* whether the hosting view is mounted
    disposed,     \* the flag the cleanup function sets (CitySim.tsx:828)
    rafScheduled, \* whether a requestAnimationFrame(animate) callback is pending
    listeners,    \* the event listeners registered by the setup
    whenISO,      \* the timestamp input of the sun
    dirPosition,  \* position of the directional light (the sun), at distance SUN_R
    LIGHT_TO_POS, \* unit vector from the scene toward the light
    hist          \* history of the last tick and of the reroute attempts, per agent

vars == <<stage, world, geo, ALL_CURVES, ROAD_GRAPH, resolved, lastRoute, agents, raycaster, routeEditMode, pickSource,
          pausedRef, autoRerouteRef, speedRef, shadeRef, rerouteAcc, frameDt, rng, rounds, ticks, hist,
          roadsFetch, mounted, disposed, rafScheduled, listeners, whenISO, dirPosition, LIGHT_TO_POS>>

graphVars == <<world, geo, roadsFetch, ALL_CURVES, ROAD_GRAPH, resolved>>
lifeVars == <<mounted, disposed, rafScheduled, listeners>>
sunVars == <<whenISO, dirPosition, LIGHT_TO_POS>>
pickVars == <<raycaster, routeEditMode, pickSource>>
simVars == <<agents, pausedRef, autoRerouteRef, speedRef, shadeRef, rerouteAcc, frameDt, rng, rounds, ticks, hist>>

-----------------------------------------------------------------------------
(* Fixed-point arithmetic *)

Abs(n) == IF n < 0 THEN 0 - n ELSE n
Max2(a, b) == IF a >= b THEN a ELSE b
Min2(a, b) == IF a <= b THEN a ELSE b
Clamp(v, lo, hi) == Max2(lo, Min2(hi, v))

\* a / b rounded to the nearest integer (b > 0)
RoundDiv(a, b) == IF a >= 0 THEN (2 * a + b) \div (2 * b) ELSE 0 - ((2 * (0 - a) + b) \div (2 * b))

\* F applied to the value of v, computed once
With(v, F(_)) == IF v = v THEN F(v) ELSE F(v)

RECURSIVE SqrtSearch(_, _, _)
SqrtSearch(n, lo, hi) ==
    IF lo >= hi THEN lo
    ELSE LET mid == (lo + hi + 1) \div 2
         IN  IF mid * mid <= n THEN SqrtSearch(n, mid, hi) ELSE SqrtSearch(n, lo, mid - 1)

\* Math.sqrt, rounded up to the next 1/1000 (so that d <= c is decided exactly)
Sqrt(n) == LET r == SqrtSearch(n, 0, 46340) IN IF r * r = n THEN r ELSE r + 1

\* a * b / c rounded down, for a >= 0 and 0 <= b <= c, without leaving 32 bits
RECURSIVE MulDivQR(_, _, _)
MulDivQR(a, b, c) ==
    IF a = 0 THEN [q |-> 0, r |-> 0]
    ELSE LET h == MulDivQR(a \div 2, b, c)
             t == 2 * h.r + (a % 2) * b
         IN  [q |-> 2 * h.q + t \div c, r |-> t % c]

MulDiv(a, b, c) == IF a >= 0 THEN MulDivQR(a, b, c).q ELSE 0 - MulDivQR(0 - a, b, c).q

V3(x, y, z) == [x |-> x, y |-> y, z |-> z]
Sub(a, b) == V3(a.x - b.x, a.y - b.y, a.z - b.z)
Dot(a, b) == a.x * b.x + a.y * b.y + a.z * b.z
LengthSq(a) == Dot(a, a)
\* Vector3.length; the square of a vector longer than about 45 units leaves 32
\* bits, and such a vector is measured in steps of 4/1000
Length(a) ==
    IF (a.x \div 8) * (a.x \div 8) + (a.y \div 8) * (a.y \div 8) + (a.z \div 8) * (a.z \div 8) <= 32000000
    THEN Sqrt(LengthSq(a))
    ELSE 4 * Sqrt(LengthSq(V3(a.x \div 4, a.y \div 4, a.z \div 4)))

\* Vector3.lerp: a + (b - a) * num / den
Lerp(a, b, num, den) ==
    V3(a.x + ((b.x - a.x) * num) \div den,
       a.y + ((b.y - a.y) * num) \div den,
       a.z + ((b.z - a.z) * num) \div den)

distV(a, b) == Length(Sub(a, b))

-----------------------------------------------------------------------------
(* Graph / Routing constants *)

ROAD_SAMPLE_DENSITY == 8
MERGE_EPS == 1000
SHADE_SAMPLES_PER_EDGE == 6


(***************************************************************************)
(* three.js curves.  tubeFromPoints builds CatmullRomCurve3(points, false, *)
(* "catmullrom", 0): with tension 0 every span is a straight segment, so   *)
(* the curve is the polyline through its points and a curve is modelled as *)
(* that sequence of points.                                                *)
(***************************************************************************)
RECURSIVE PolyLength(_, _)
PolyLength(pts, i) ==
    IF i >= Len(pts) THEN 0 ELSE distV(pts[i], pts[i + 1]) + PolyLength(pts, i + 1)

\* Curve.getLength
getLength(curve) == PolyLength(curve, 1)

RECURSIVE PointAtArc(_, _, _)
PointAtArc(pts, i, s) ==
    With(distV(pts[i], pts[i + 1]), LAMBDA seg :
        IF i >= Len(pts) - 1 \/ s <= seg
        THEN IF seg = 0 THEN pts[i] ELSE Lerp(pts[i], pts[i + 1], Min2(s, seg), seg)
        ELSE PointAtArc(pts, i + 1, s - seg))

\* Curve.getSpacedPoints(n): n + 1 points at equal arc-length steps
getSpacedPoints(curve, n) ==
    LET L == getLength(curve)
    IN  [k \in 1..(n + 1) |-> PointAtArc(curve, 1, ((k - 1) * L) \div n)]

\* null when there are fewer than 2 points, else the curve through them
\* a loader that also drops the curves of exactly two points
tubeFromPointsOverTwo(points) ==
    IF Len(points) < 3 THEN [ok |-> FALSE, curve |-> <<>>] ELSE [ok |-> TRUE, curve |-> points]

tubeFromPoints(points) ==
    IF Len(points) < 2 THEN [ok |-> FALSE, curve |-> <<>>] ELSE [ok |-> TRUE, curve |-> points]

spacedPointsFromCurve(curve) ==
    LET L == Max2(1000, getLength(curve))
        n == Max2(10, (L * ROAD_SAMPLE_DENSITY) \div 100000 + 2)
    IN  getSpacedPoints(curve, n)

RECURSIVE FirstNodeWithin(_, _, _)
FirstNodeWithin(nodes, p, i) ==
    IF i > Len(nodes) THEN 0
    ELSE IF distV(nodes[i].p, p) <= MERGE_EPS THEN i
    ELSE FirstNodeWithin(nodes, p, i + 1)

\* a resolver that never merges: every point gets a node of its own
findOrCreateNodeAlwaysNew(nodes, p) ==
    [nodes |-> Append(nodes, [id |-> Len(nodes), p |-> p, edges |-> <<>>]), n |-> Len(nodes) + 1]

\* the node list after the call, and the index (id + 1) of the node returned
findOrCreateNode(nodes, p) ==
    LET i == FirstNodeWithin(nodes, p, 1)
    IN  IF i # 0 THEN [nodes |-> nodes, n |-> i]
        ELSE [nodes |-> Append(nodes, [id |-> Len(nodes), p |-> p, edges |-> <<>>]),
              n |-> Len(nodes) + 1]

\* the scan of n0.edges for an edge between n0 and n1
EdgeExistsOneWay(nodes, edges, n0, n1) ==
    \E k \in 1..Len(nodes[n0].edges) :
        LET e == edges[nodes[n0].edges[k]] IN e.a = n0 /\ e.b = n1

EdgeExists(nodes, edges, n0, n1) ==
    \E k \in 1..Len(nodes[n0].edges) :
        LET e == edges[nodes[n0].edges[k]]
        IN  (e.a = n0 /\ e.b = n1) \/ (e.a = n1 /\ e.b = n0)

\* one iteration of the inner loop of buildRoadGraphFromCurves
AddEdge(st, p0, p1, nodes, n0, n1) ==
    IF n0 = n1 \/ EdgeExists(nodes, st.edges, n0, n1)
    THEN [nodes |-> nodes, edges |-> st.edges,
          resolved |-> st.resolved \o <<[p |-> p0, node |-> n0], [p |-> p1, node |-> n1]>>]
    ELSE [nodes |-> [nodes EXCEPT ![n0].edges = Append(@, Len(st.edges) + 1),
                                  ![n1].edges = Append(@, Len(st.edges) + 1)],
          edges |-> Append(st.edges, [id |-> Len(st.edges), a |-> n0, b |-> n1, poly |-> <<p0, p1>>,
                                      length |-> distV(p0, p1), shadeScore |-> 0]),
          resolved |-> st.resolved \o <<[p |-> p0, node |-> n0], [p |-> p1, node |-> n1]>>]

AddSegment(st, p0, p1) ==
    With(findOrCreateNode(st.nodes, p0), LAMBDA r0 :
        With(findOrCreateNode(r0.nodes, p1), LAMBDA r1 :
            AddEdge(st, p0, p1, r1.nodes, r0.n, r1.n)))

RECURSIVE AddCurvePoints(_, _, _)
AddCurvePoints(st, pts, i) ==
    IF i >= Len(pts) THEN st
    ELSE With(AddSegment(st, pts[i], pts[i + 1]), LAMBDA nx : AddCurvePoints(nx, pts, i + 1))

RECURSIVE AddCurves(_, _, _)
AddCurves(st, curves, c) ==
    IF c > Len(curves) THEN st
    ELSE With(AddCurvePoints(st, spacedPointsFromCurve(curves[c]), 1), LAMBDA nx : AddCurves(nx, curves, c + 1))

(***************************************************************************)
(* The sun.  Angles are whole degrees, sines and cosines are in 1/1000.    *)
(* The position of the directional light is in whole units (it lies 1200   *)
(* units from the origin), the light direction is a unit vector in 1/1000. *)
(***************************************************************************)
\* 1000 * sin(d degrees), d = 0..90
SinTable ==
    <<0, 17, 35, 52, 70, 87, 105, 122, 139, 156, 174, 191, 208,
      225, 242, 259, 276, 292, 309, 326, 342, 358, 375, 391, 407, 423,
      438, 454, 469, 485, 500, 515, 530, 545, 559, 574, 588, 602, 616,
      629, 643, 656, 669, 682, 695, 707, 719, 731, 743, 755, 766, 777,
      788, 799, 809, 819, 829, 839, 848, 857, 866, 875, 883, 891, 899,
      906, 914, 921, 927, 934, 940, 946, 951, 956, 961, 966, 970, 974,
      978, 982, 985, 988, 990, 993, 995, 996, 998, 999, 999, 1000, 1000>>

\* Math.sin and Math.cos of an angle in degrees
Sin(d) ==
    IF d % 360 <= 90 THEN SinTable[(d % 360) + 1]
    ELSE IF d % 360 <= 180 THEN SinTable[181 - (d % 360)]
    ELSE IF d % 360 <= 270 THEN 0 - SinTable[(d % 360) - 179]
    ELSE 0 - SinTable[361 - (d % 360)]

Cos(d) == Sin(d + 90)

SUN_R == 1200

\* dir.position of setSunByAzAlt(azDeg, altDeg)
SunPosition(azDeg, altDeg) ==
    V3(MulDiv(MulDiv(SUN_R, Cos(altDeg), 1000), Sin(azDeg), 1000),
       MulDiv(SUN_R, Sin(altDeg), 1000),
       MulDiv(MulDiv(SUN_R, Cos(altDeg), 1000), Cos(azDeg), 1000))

\* LIGHT_TO_POS of computeLightDir: the negated unit vector from dir.position to the target (0,0,0)
computeLightDir(pos) ==
    With(Length(pos), LAMBDA len :
        V3(RoundDiv(pos.x * 1000, len), RoundDiv(pos.y * 1000, len), RoundDiv(pos.z * 1000, len)))

\* the default sun of the setup: setSunByAzAlt(160, 45)
DEFAULT_AZ == 160
DEFAULT_ALT == 45

\* the timestamp the component starts with, and the ones its presets produce
WhenDefault == "2025-10-11T12:00:00Z"
WhenNoon == "2025-10-11T12:00:00.000Z"
WhenSunset == "2025-10-11T18:00:00.000Z"
WhenNight == "2025-10-11T00:30:00.000Z"

\* new Date(whenISO): whether it is a valid date, and its UTC hour and minute
DateOf(when) ==
    CASE when \in {WhenDefault, WhenNoon} -> [valid |-> TRUE, hour |-> 12, minute |-> 0]
      [] when = WhenSunset -> [valid |-> TRUE, hour |-> 18, minute |-> 0]
      [] when = WhenNight -> [valid |-> TRUE, hour |-> 0, minute |-> 30]
      [] when = "2025-10-11T03:00:00Z" -> [valid |-> TRUE, hour |-> 3, minute |-> 0]
      [] when = "2025-10-11T06:00:00Z" -> [valid |-> TRUE, hour |-> 6, minute |-> 0]
      [] when = "2025-10-11T09:00:00Z" -> [valid |-> TRUE, hour |-> 9, minute |-> 0]
      [] when = "2025-10-11T15:00:00Z" -> [valid |-> TRUE, hour |-> 15, minute |-> 0]
      [] OTHER -> [valid |-> FALSE, hour |-> 0, minute |-> 0]

\* azimuth and altitude of solarPositionUTC(35.6892, 51.389, d) on 2025-10-11,
\* rounded to whole degrees: 72.37/-35.73 at 12:00, 132.49/33.10 at 18:00,
\* -115.97/19.46 at 00:30 (the formula puts the sun below the horizon at 12:00 UTC)
SolarAzAlt(d) ==
    CASE d.hour = 12 -> [azimuth |-> 72, altitude |-> 0 - 36]
      [] d.hour = 18 -> [azimuth |-> 132, altitude |-> 33]
      [] OTHER -> [azimuth |-> 0 - 116, altitude |-> 19]

\* solarPositionUTC: azimuth, altitude and the unit vector toward the sun
solarPositionUTC(d) ==
    With(SolarAzAlt(d), LAMBDA s :
        [azimuth |-> s.azimuth, altitude |-> s.altitude,
         vector |-> V3(MulDiv(Sin(s.azimuth), Cos(s.altitude), 1000), Sin(s.altitude),
                       MulDiv(Cos(s.azimuth), Cos(s.altitude), 1000))])

\* the sun step of animate: dir.position when the timestamp is a valid date, else as it was
SunStep(when, pos) ==
    IF DateOf(when).valid
    THEN With(solarPositionUTC(DateOf(when)).vector, LAMBDA v :
             V3(MulDiv(v.x, SUN_R, 1000), MulDiv(v.y, SUN_R, 1000), MulDiv(v.z, SUN_R, 1000)))
    ELSE pos

(***************************************************************************)
(* The scene the shade rays hit.  A ray leaves a sample point (lifted by   *)
(* SHADE_LOOKAHEAD) toward the sun and the sample is shaded when the ray   *)
(* hits scene geometry within 500 units.  The scene is described by the    *)
(* region it shades while the sun is up: nothing, everything, or the       *)
(* points with x >= w.x; and by whether it has a ground under the roads,   *)
(* which stops every ray that descends (sun at or below the horizon).      *)
(***************************************************************************)
HasGround(w) == "ground" \in DOMAIN w /\ w.ground

Occluded(w, q, light) ==
    IF light.y <= 0 THEN HasGround(w)
    ELSE CASE w.kind = "open" -> FALSE
           [] w.kind = "covered" -> TRUE
           [] OTHER -> q.x >= w.x

\* number of shaded samples out of SHADE_SAMPLES_PER_EDGE (shade score in sixths)
approximateEdgeShade(poly, w, light) ==
    IF Len(poly) < 2 THEN 0
    ELSE Cardinality({i \in 0..(SHADE_SAMPLES_PER_EDGE - 1) :
            Occluded(w, Lerp(poly[1], poly[2], 2 * i + 1, 2 * SHADE_SAMPLES_PER_EDGE), light)})

EmptyGraph == [nodes |-> <<>>, edges |-> <<>>]

SHADE_LOOKAHEAD == 1200

\* new THREE.Raycaster(): origin (0, 0, 0), direction (0, 0, -1)
NewRaycaster == [origin |-> V3(0, 0, 0), dir |-> V3(0, 0, 0 - 1000)]

\* raycaster.set(origin, direction) on the raycaster holding the ray rc
raycasterSet(rc, origin, dir) == [origin |-> origin, dir |-> dir]

\* the ray the raycaster holds after the shade loop over the edges of g: the
\* last sample of the last edge, cast toward the light
raycasterAfterShades(rc, g, light) ==
    IF Len(g.edges) = 0 \/ Len(g.edges[Len(g.edges)].poly) < 2 THEN rc
    ELSE With(Lerp(g.edges[Len(g.edges)].poly[1], g.edges[Len(g.edges)].poly[2],
                   2 * SHADE_SAMPLES_PER_EDGE - 1, 2 * SHADE_SAMPLES_PER_EDGE), LAMBDA q :
             raycasterSet(rc, V3(q.x, q.y + SHADE_LOOKAHEAD, q.z), light))

\* the graph, with the history of node resolutions
buildRoadGraphTrace(curves, w, light) ==
    With(AddCurves([nodes |-> <<>>, edges |-> <<>>, resolved |-> <<>>], curves, 1), LAMBDA st :
        [nodes |-> st.nodes,
         edges |-> [k \in 1..Len(st.edges) |->
                      [st.edges[k] EXCEPT !.shadeScore = approximateEdgeShade(st.edges[k].poly, w, light)]],
         resolved |-> st.resolved])

buildRoadGraphFromCurves(curves, w, light) ==
    With(buildRoadGraphTrace(curves, w, light), LAMBDA t : [nodes |-> t.nodes, edges |-> t.edges])

-----------------------------------------------------------------------------
(* Routing: snap, A*, findRouteOnRoads *)

\* the point of edge e nearest to p, and its distance
nearestPointOnEdge(e, p) ==
    With(Sub(e.poly[2], e.poly[1]), LAMBDA ab :
    With(LengthSq(ab), LAMBDA l2 :
    With(Clamp(Dot(Sub(p, e.poly[1]), ab), 0, l2), LAMBDA t :
    With(V3(e.poly[1].x + MulDiv(ab.x, t, l2), e.poly[1].y + MulDiv(ab.y, t, l2),
            e.poly[1].z + MulDiv(ab.z, t, l2)), LAMBDA q :
        [q |-> q, d |-> distV(p, q)]))))

RECURSIVE SnapScan(_, _, _, _)
SnapScan(g, p, i, best) ==
    IF i > Len(g.edges) THEN best
    ELSE With(nearestPointOnEdge(g.edges[i], p), LAMBDA s :
         With(IF ~best.ok \/ s.d < best.d THEN [ok |-> TRUE, edge |-> i, q |-> s.q, d |-> s.d] ELSE best,
              LAMBDA nx : SnapScan(g, p, i + 1, nx)))

\* null (ok = FALSE) when the graph has no edge
snapToGraph(g, p) == SnapScan(g, p, 1, [ok |-> FALSE, edge |-> 0, q |-> p, d |-> 0])

heur(g, a, b) == distV(g.nodes[a].p, g.nodes[b].p)

(***************************************************************************)
(* Scores.  shadeBias is a count of 1/20 (the slider step 0.05) and a      *)
(* shade score a count of 1/6, so a cost factor is a count of 1/120 and a  *)
(* cost, a gScore or an fScore is a count of 1/120 of 1/1000 unit.         *)
(***************************************************************************)
BiasSteps == 20
CostUnit == BiasSteps * SHADE_SAMPLES_PER_EDGE

\* Infinity of the score maps
Infinity == 2000000000

\* the first node of the open set (insertion order) with the strictly smallest fScore
RECURSIVE PickCurrent(_, _, _, _, _)
PickCurrent(open, fScore, i, current, bestF) ==
    IF i > Len(open) THEN current
    ELSE IF fScore[open[i]] < bestF
         THEN PickCurrent(open, fScore, i + 1, open[i], fScore[open[i]])
         ELSE PickCurrent(open, fScore, i + 1, current, bestF)

\* a chain that leaves out the node the search started from
RECURSIVE ReconstructPathNoStart(_, _)
ReconstructPathNoStart(came, current) ==
    IF came[current] = 0 THEN <<>>
    ELSE Append(ReconstructPathNoStart(came, came[current]), current)

\* the came-from chain from current back to the start, reversed
RECURSIVE ReconstructPath(_, _)
ReconstructPath(came, current) ==
    IF came[current] = 0 THEN <<current>>
    ELSE Append(ReconstructPath(came, came[current]), current)

\* Set.delete / Set.add on the insertion-ordered open set
SetDelete(open, n) == SelectSeq(open, LAMBDA m : m # n)
SetAdd(open, n) == IF \E i \in 1..Len(open) : open[i] = n THEN open ELSE Append(open, n)

\* a relaxation that puts the neighbour back into the open set whether or not
\* its cost so far went down
RelaxEdgeReopen(g, goal, current, st, nb, tentative) ==
    IF tentative < st.gScore[nb]
    THEN [open |-> SetAdd(st.open, nb),
          came |-> [st.came EXCEPT ![nb] = current],
          gScore |-> [st.gScore EXCEPT ![nb] = tentative],
          fScore |-> [st.fScore EXCEPT ![nb] = tentative + CostUnit * heur(g, nb, goal)]]
    ELSE [st EXCEPT !.open = SetAdd(st.open, nb)]

\* one iteration of the loop over current.edges, for the edge ei to neighbour nb
RelaxEdge(g, goal, current, st, nb, tentative) ==
    IF tentative < st.gScore[nb]
    THEN [open |-> SetAdd(st.open, nb),
          came |-> [st.came EXCEPT ![nb] = current],
          gScore |-> [st.gScore EXCEPT ![nb] = tentative],
          fScore |-> [st.fScore EXCEPT ![nb] = tentative + CostUnit * heur(g, nb, goal)]]
    ELSE st

\* the loop over current.edges
RECURSIVE RelaxEdges(_, _, _, _, _, _)
RelaxEdges(g, goal, costOf, current, k, st) ==
    IF k > Len(g.nodes[current].edges) THEN st
    ELSE With(g.nodes[current].edges[k], LAMBDA ei :
         With(RelaxEdge(g, goal, current, st,
                        IF g.edges[ei].a = current THEN g.edges[ei].b ELSE g.edges[ei].a,
                        st.gScore[current] + costOf[ei]),
              LAMBDA nx : RelaxEdges(g, goal, costOf, current, k + 1, nx)))

\* how many iterations of the while loop of aStar a search is followed for
MaxIters == 30

\* the while loop from its iteration number iters on; done = FALSE: still
\* running after MaxIters iterations
RECURSIVE AStarLoop(_, _, _, _, _)
AStarLoop(g, goal, costOf, st, iters) ==
    IF Len(st.open) = 0 THEN [found |-> FALSE, path |-> <<>>, done |-> TRUE, iters |-> iters]
    ELSE IF iters >= MaxIters THEN [found |-> FALSE, path |-> <<>>, done |-> FALSE, iters |-> iters]
    ELSE With(PickCurrent(st.open, st.fScore, 1, 0, Infinity), LAMBDA current :
         IF current = 0 THEN [found |-> FALSE, path |-> <<>>, done |-> TRUE, iters |-> iters]
         ELSE IF current = goal
         THEN [found |-> TRUE, path |-> ReconstructPath(st.came, current), done |-> TRUE, iters |-> iters + 1]
         ELSE With(RelaxEdges(g, goal, costOf, current, 1, [st EXCEPT !.open = SetDelete(st.open, current)]),
                   LAMBDA nx : AStarLoop(g, goal, costOf, nx, iters + 1)))

aStar(g, start, goal, costOf) ==
    AStarLoop(g, goal, costOf,
              [open |-> <<start>>,
               came |-> [n \in 1..Len(g.nodes) |-> 0],
               gScore |-> [n \in 1..Len(g.nodes) |-> IF n = start THEN 0 ELSE Infinity],
               fScore |-> [n \in 1..Len(g.nodes) |->
                             IF n = start THEN CostUnit * heur(g, start, goal) ELSE Infinity]],
              0)

nodesPathToPolyline(g, path) == [i \in 1..Len(path) |-> g.nodes[path[i]].p]

\* the first node (array order) at the strictly smallest distance from pt
RECURSIVE NearestScan(_, _, _, _, _)
NearestScan(g, pt, i, best, bd) ==
    IF i > Len(g.nodes) THEN best
    ELSE With(distV(g.nodes[i].p, pt), LAMBDA d :
         IF d < bd THEN NearestScan(g, pt, i + 1, i, d) ELSE NearestScan(g, pt, i + 1, best, bd))

nearestNodeToPoint(g, pt) == NearestScan(g, pt, 1, 0, Infinity)

\* e.length * Math.max(0.2, 1 - shadeBias * e.shadeScore)
cost(e, shadeBias) == e.length * Max2(CostUnit \div 5, CostUnit - shadeBias * e.shadeScore)

NoRoute == [ok |-> FALSE, poly |-> <<>>, nodePath |-> <<>>, nS |-> 0, nG |-> 0]

\* a route that joins the two nodes without a search
RouteBetweenDirect(g, nS, nG, shadeBias) ==
    [ok |-> TRUE, poly |-> nodesPathToPolyline(g, <<nS, nG>>), nodePath |-> <<nS, nG>>, nS |-> nS, nG |-> nG]

\* the route between the nodes nS and nG
RouteBetween(g, nS, nG, shadeBias) ==
    With(aStar(g, nS, nG, [ei \in 1..Len(g.edges) |-> cost(g.edges[ei], shadeBias)]), LAMBDA r :
        IF ~r.found THEN [NoRoute EXCEPT !.nS = nS, !.nG = nG]
        ELSE [ok |-> TRUE, poly |-> nodesPathToPolyline(g, r.path), nodePath |-> r.path, nS |-> nS, nG |-> nG])

\* null (ok = FALSE) or the polyline; nodePath, nS and nG are kept for the record
findRouteOnRoads(g, worldStart, worldGoal, shadeBias) ==
    With(snapToGraph(g, worldStart), LAMBDA s :
    With(snapToGraph(g, worldGoal), LAMBDA t :
        IF ~s.ok \/ ~t.ok THEN NoRoute
        ELSE RouteBetween(g, nearestNodeToPoint(g, s.q), nearestNodeToPoint(g, t.q), shadeBias)))

-----------------------------------------------------------------------------
(* Reference values the properties compare against (not part of the program) *)

Other(e, n) == IF e.a = n THEN e.b ELSE e.a

RECURSIVE MinOfSet(_)
MinOfSet(S) ==
    LET x == CHOOSE y \in S : TRUE
    IN  IF S = {x} THEN x ELSE Min2(x, MinOfSet(S \ {x}))

RECURSIVE Relaxed(_, _, _, _)
Relaxed(g, costOf, d, k) ==
    IF k = 0 THEN d
    ELSE With([n \in 1..Len(g.nodes) |->
                 MinOfSet({d[n]} \cup {d[Other(g.edges[g.nodes[n].edges[j]], n)] + costOf[g.nodes[n].edges[j]] :
                                         j \in 1..Len(g.nodes[n].edges)})],
              LAMBDA nx : Relaxed(g, costOf, nx, k - 1))

\* the least total cost of a path from each node to goal (Infinity or more: none)
MinCostTo(g, costOf, goal) ==
    Relaxed(g, costOf, [n \in 1..Len(g.nodes) |-> IF n = goal THEN 0 ELSE Infinity \div 2], Len(g.nodes))

EdgeBetween(g, a, b) ==
    CHOOSE ei \in 1..Len(g.edges) :
        (g.edges[ei].a = a /\ g.edges[ei].b = b) \/ (g.edges[ei].a = b /\ g.edges[ei].b = a)

RECURSIVE PathCost(_, _, _, _)
PathCost(g, costOf, path, i) ==
    IF i >= Len(path) THEN 0
    ELSE costOf[EdgeBetween(g, path[i], path[i + 1])] + PathCost(g, costOf, path, i + 1)

CostTable(g, shadeBias) == [ei \in 1..Len(g.edges) |-> cost(g.edges[ei], shadeBias)]
LengthTable(g) == [ei \in 1..Len(g.edges) |-> g.edges[ei].length]

-----------------------------------------------------------------------------
(* Inputs of the road loader and of the route queries *)

P(x, z) == V3(x, 0, z)

\* the road polylines an input is made of
GeoPool ==
    { <<P(0, 0), P(3000, 0)>>,                 \* a short street, sampled every 0.3
      <<P(3000, 0), P(0, 0)>>,                 \* the same street, drawn the other way
      <<P(900, 0), P(14900, 0)>>,              \* a long street over it, sampled every 1.4
      <<P(1000, 0), P(1000, 5000)>>,           \* a crossing street
      <<P(0, 0), P(4000, 0), P(4000, 4000), P(0, 4000), P(0, 0)>>,   \* a closed block
      <<P(0, 0), P(500, 0)>>,                  \* two points closer than MERGE_EPS
      <<P(600, 3000), P(3600, 3000)>>,         \* a street apart from the first three
      <<P(2000, 2000)>>,                       \* a single point
      <<>> }

\* at most this many polylines in an input
MaxCurves == 2

GeoInputs == UNION {[1..n -> GeoPool] : n \in 0..MaxCurves}

ShadowWorlds ==
    {[kind |-> "open", x |-> 0, walls |-> <<>>], [kind |-> "covered", x |-> 0, walls |-> <<>>],
     [kind |-> "east", x |-> 1500, walls |-> <<>>]}

\* world points the routes are asked between
RoutePoints == {P(0, 0), P(2400, 0), P(3600, 100), P(4000, 4000), P(1000, 3000)}

\* shade bias values tried (twentieths)
Biases == {0, 10, 20}

NoAgents == <<>>
NoCall == [called |-> FALSE, start |-> P(0, 0), goal |-> P(0, 0), shadeBias |-> 0, res |-> NoRoute]
NoHist == <<>>
NoRandom == [stream |-> <<0>>, at |-> 1]

\* the request for the road data answered with a feature collection
FetchOk == "ok"

\* what pickBase and the request for Lines_Edges.geojson can come back with
\* (1061-1069): no asset base, a rejected fetch, a status that is not OK, a
\* body that is not JSON, JSON without a features member, the JSON value null
FetchOutcomes == {FetchOk, "no-assets", "network", "http", "not-json", "no-features", "null"}

\* the built-in LineString of the catch block (1071-1076), its five lon/lat
\* points through llToLocal and N (80 units across, centred)
FallbackGeo ==
    <<<<P(0 - 40000, 39408), P(0 - 24000, 19704), P(0 - 2667, 0), P(18667, 0 - 19704), P(40000, 0 - 39408)>>>>

\* the line strings of gj.features after the try/catch
RoadLines(fetch, lines) ==
    CASE fetch = FetchOk -> lines
      [] fetch = "no-features" -> <<>>
      [] OTHER -> FallbackGeo

\* the view mounted, nothing scheduled or registered yet
LifeIdle ==
    /\ mounted = TRUE
    /\ disposed = FALSE
    /\ rafScheduled = FALSE
    /\ listeners = {}

\* the raycaster as made, the picking mode of the first render, no source picked
PickIdle ==
    /\ raycaster = NewRaycaster
    /\ routeEditMode = "off"
    /\ pickSource = [has |-> FALSE, p |-> V3(0, 0, 0)]

\* the sun after setSunByAzAlt(160, 45); computeLightDir() (1058-1059)
SunIdle ==
    /\ whenISO = WhenDefault
    /\ dirPosition = SunPosition(DEFAULT_AZ, DEFAULT_ALT)
    /\ LIGHT_TO_POS = computeLightDir(SunPosition(DEFAULT_AZ, DEFAULT_ALT))

SimIdle ==
    /\ roadsFetch = FetchOk
    /\ LifeIdle
    /\ SunIdle
    /\ PickIdle
    /\ agents = NoAgents
    /\ pausedRef = FALSE
    /\ autoRerouteRef = TRUE
    /\ speedRef = 10
    /\ shadeRef = 10
    /\ rerouteAcc = 0
    /\ frameDt = 0
    /\ rng = NoRandom
    /\ rounds = 0
    /\ ticks = 0
    /\ hist = NoHist

-----------------------------------------------------------------------------
(* The road loader, the graph builder and the pathfinder, driven in the    *)
(* order of the setup: load (1110-1130), build (1322-1323), route.         *)

InitBuild ==
    /\ stage = "load"
    /\ world \in ShadowWorlds
    /\ geo \in GeoInputs
    /\ ALL_CURVES = <<>>
    /\ ROAD_GRAPH = EmptyGraph
    /\ resolved = <<>>
    /\ lastRoute = NoCall
    /\ SimIdle

\* the curves of the polylines tubeFromPoints accepts, in order
RECURSIVE CurvesOf(_, _)
CurvesOf(lines, i) ==
    IF i > Len(lines) THEN <<>>
    ELSE LET t == tubeFromPoints(lines[i])
         IN  (IF t.ok THEN <<t.curve>> ELSE <<>>) \o CurvesOf(lines, i + 1)

\* the roads of the setup; reading gj.features of null throws outside the
\* try block and the setup ends there
LoadRoads ==
    /\ stage = "load"
    /\ IF roadsFetch = "null"
       THEN stage' = "failed" /\ UNCHANGED ALL_CURVES
       ELSE stage' = "build" /\ ALL_CURVES' = CurvesOf(RoadLines(roadsFetch, geo), 1)
    /\ UNCHANGED <<world, geo, roadsFetch, ROAD_GRAPH, resolved, lastRoute>>
    /\ UNCHANGED simVars
    /\ UNCHANGED lifeVars
    /\ UNCHANGED sunVars
    /\ UNCHANGED pickVars

BuildGraph ==
    /\ stage = "build"
    /\ ROAD_GRAPH' = buildRoadGraphFromCurves(ALL_CURVES, world, LIGHT_TO_POS)
    /\ resolved' = buildRoadGraphTrace(ALL_CURVES, world, LIGHT_TO_POS).resolved
    /\ stage' = "route"
    /\ UNCHANGED <<world, geo, roadsFetch, ALL_CURVES, lastRoute>>
    /\ UNCHANGED simVars
    /\ UNCHANGED lifeVars
    /\ UNCHANGED sunVars
    /\ raycaster' = raycasterAfterShades(raycaster, buildRoadGraphFromCurves(ALL_CURVES, world, LIGHT_TO_POS),
                                          LIGHT_TO_POS)
    /\ UNCHANGED <<routeEditMode, pickSource>>

\* one findRouteOnRoads call on the built graph
Route ==
    /\ stage = "route"
    /\ \E s \in RoutePoints, t \in RoutePoints, b \in Biases :
          lastRoute' = [called |-> TRUE, start |-> s, goal |-> t, shadeBias |-> b,
                        res |-> findRouteOnRoads(ROAD_GRAPH, s, t, b)]
    /\ stage' = "routed"
    /\ UNCHANGED graphVars
    /\ UNCHANGED simVars
    /\ UNCHANGED lifeVars
    /\ UNCHANGED sunVars
    /\ UNCHANGED pickVars

NextGraph == LoadRoads \/ BuildGraph

\* the loader and the builder over every input
SpecGraph == InitBuild /\ [][NextGraph]_vars

NextRoute == LoadRoads \/ BuildGraph \/ Route

\* the loader, the builder and one route query over every input
SpecRoute == InitBuild /\ [][NextRoute]_vars

-----------------------------------------------------------------------------
(* Properties of the graph builder *)

Built == stage \in {"route", "routed"}

NodesOfPair(e) == {e.a, e.b}

\* C5: in every graph returned by buildRoadGraphFromCurves every edge joins two
\* distinct nodes and no two edges join the same unordered pair of nodes.
C5_NoSelfLoopNoDuplicate ==
    /\ \A i \in 1..Len(ROAD_GRAPH.edges) : ROAD_GRAPH.edges[i].a # ROAD_GRAPH.edges[i].b
    /\ \A i, j \in 1..Len(ROAD_GRAPH.edges) :
          i # j => NodesOfPair(ROAD_GRAPH.edges[i]) # NodesOfPair(ROAD_GRAPH.edges[j])

\* a graph built from two curves that overlap, where the builder met both a pair of
\* points on one node and a pair of nodes already joined
C5_Witness ==
    /\ Built
    /\ Len(ALL_CURVES) = 2
    /\ Len(ROAD_GRAPH.edges) >= 1
    /\ \E i \in 1..Len(resolved) : i % 2 = 1 /\ resolved[i].node = resolved[i + 1].node
    /\ \E i \in 1..Len(resolved) :
          /\ i % 2 = 1 /\ i > 20
          /\ resolved[i].node # resolved[i + 1].node
          /\ \A k \in 1..Len(ROAD_GRAPH.edges) :
                ROAD_GRAPH.edges[k].poly # <<resolved[i].p, resolved[i + 1].p>>

\* C4 as stated: sampled points within MERGE_EPS of each other resolve to the same
\* node, and sampled points farther apart than MERGE_EPS to different nodes.
C4_MergeByPointDistance ==
    \A i, j \in 1..Len(resolved) :
        /\ distV(resolved[i].p, resolved[j].p) <= MERGE_EPS => resolved[i].node = resolved[j].node
        /\ distV(resolved[i].p, resolved[j].p) > MERGE_EPS => resolved[i].node # resolved[j].node

\* C4 amended: a sampled point resolves to the earliest-created node whose position
\* is within MERGE_EPS of it (a new node at the point when there is none), so two
\* distinct nodes are farther apart than MERGE_EPS and two sampled points farther
\* apart than 2 * MERGE_EPS resolve to different nodes.
C4_MergeByNodeDistance ==
    /\ \A i \in 1..Len(resolved) :
          /\ distV(ROAD_GRAPH.nodes[resolved[i].node].p, resolved[i].p) <= MERGE_EPS
          /\ \A m \in 1..(resolved[i].node - 1) : distV(ROAD_GRAPH.nodes[m].p, resolved[i].p) > MERGE_EPS
    /\ \A m, n \in 1..Len(ROAD_GRAPH.nodes) :
          m # n => distV(ROAD_GRAPH.nodes[m].p, ROAD_GRAPH.nodes[n].p) > MERGE_EPS
    /\ \A i, j \in 1..Len(resolved) :
          distV(resolved[i].p, resolved[j].p) > 2 * MERGE_EPS => resolved[i].node # resolved[j].node

\* a build where one node took two points farther apart than MERGE_EPS, and two
\* points within MERGE_EPS of each other went to different nodes
C4_Witness ==
    /\ Built
    /\ \E i, j \in 1..Len(resolved) :
          /\ resolved[i].node = resolved[j].node
          /\ distV(resolved[i].p, resolved[j].p) > MERGE_EPS
    /\ \E i, j \in 1..Len(resolved) :
          /\ resolved[i].node # resolved[j].node
          /\ distV(resolved[i].p, resolved[j].p) <= MERGE_EPS

-----------------------------------------------------------------------------
(* Properties of the pathfinder *)

Routed == lastRoute.called /\ lastRoute.res.ok

RouteCosts == CostTable(ROAD_GRAPH, lastRoute.shadeBias)

\* C1: for every shadeBias and every built graph the heuristic of a node never
\* exceeds the minimum total edge cost from that node to the goal node, and the
\* path aStar returns has minimum total cost among the paths from the start node
\* to the goal node.
C1_AdmissibleAndOptimal ==
    Routed =>
        With(MinCostTo(ROAD_GRAPH, RouteCosts, lastRoute.res.nG), LAMBDA best :
            /\ \A n \in 1..Len(ROAD_GRAPH.nodes) :
                  CostUnit * heur(ROAD_GRAPH, n, lastRoute.res.nG) <= best[n]
            /\ PathCost(ROAD_GRAPH, RouteCosts, lastRoute.res.nodePath, 1) = best[lastRoute.res.nS])

\* C2: with shadeBias 0 the sum of the edge lengths along the path findRouteOnRoads
\* returns equals the minimum sum of edge lengths over all paths between its start
\* node and its goal node.
C2_ShortestAtZeroBias ==
    (Routed /\ lastRoute.shadeBias = 0) =>
        PathCost(ROAD_GRAPH, LengthTable(ROAD_GRAPH), lastRoute.res.nodePath, 1)
            = MinCostTo(ROAD_GRAPH, LengthTable(ROAD_GRAPH), lastRoute.res.nG)[lastRoute.res.nS]

-----------------------------------------------------------------------------
(* The three-node scenario: a direct edge in the sun and a detour in the shade *)

ScenarioNodes == <<P(0, 0), P(10000, 0), P(10000, 10000)>>

\* the edges A-B, A-C and C-B as <<a, b, shadeScore>>, shade in sixths
ScenarioEdges == <<<<1, 2, 0>>, <<1, 3, SHADE_SAMPLES_PER_EDGE>>, <<3, 2, SHADE_SAMPLES_PER_EDGE>>>>

\* a RoadGraph of straight edges between the given node positions
GraphOf(ps, es) ==
    [nodes |-> [i \in 1..Len(ps) |->
                   [id |-> i - 1, p |-> ps[i],
                    edges |-> SelectSeq([k \in 1..Len(es) |-> k],
                                        LAMBDA k : es[k][1] = i \/ es[k][2] = i)]],
     edges |-> [k \in 1..Len(es) |->
                   [id |-> k - 1, a |-> es[k][1], b |-> es[k][2],
                    poly |-> <<ps[es[k][1]], ps[es[k][2]]>>,
                    length |-> distV(ps[es[k][1]], ps[es[k][2]]),
                    shadeScore |-> es[k][3]]]]

ScenarioPoints ==
    {P(0, 0), P(10000, 0), P(10000, 10000), P(5000, 0), P(5000, 5000), P(10000, 5000), P(-2000, 1000)}

\* the shadeBias slider positions 0, 0.25, 0.5, 0.75 and 1
ScenarioBiases == {0, 5, 10, 15, 20}

InitScenario ==
    /\ stage = "scenario"
    /\ world = [kind |-> "open", x |-> 0, walls |-> <<>>]
    /\ geo = <<>>
    /\ ALL_CURVES = <<>>
    /\ ROAD_GRAPH = GraphOf(ScenarioNodes, ScenarioEdges)
    /\ resolved = <<>>
    /\ lastRoute = NoCall
    /\ SimIdle

\* one findRouteOnRoads call on the scenario graph
ScenarioRoute ==
    /\ stage = "scenario"
    /\ \E s \in ScenarioPoints, t \in ScenarioPoints, b \in ScenarioBiases :
          lastRoute' = [called |-> TRUE, start |-> s, goal |-> t, shadeBias |-> b,
                        res |-> findRouteOnRoads(ROAD_GRAPH, s, t, b)]
    /\ stage' = "routed"
    /\ UNCHANGED graphVars
    /\ UNCHANGED simVars
    /\ UNCHANGED lifeVars
    /\ UNCHANGED sunVars
    /\ UNCHANGED pickVars

NextScenario == ScenarioRoute

SpecScenario == InitScenario /\ [][NextScenario]_vars

\* C3: on the three-node graph, routing from A to B returns the direct path A->B
\* at shadeBias 0 and the detour A->C->B at shadeBias 1.
C3_BiasFlipsRoute ==
    (lastRoute.called /\ lastRoute.start = ScenarioNodes[1] /\ lastRoute.goal = ScenarioNodes[2]) =>
        /\ lastRoute.shadeBias = 0 => lastRoute.res.ok /\ lastRoute.res.nodePath = <<1, 2>>
        /\ lastRoute.shadeBias = BiasSteps => lastRoute.res.ok /\ lastRoute.res.nodePath = <<1, 3, 2>>

-----------------------------------------------------------------------------
(* The Agent class. Speeds are in 1/1000 unit per second, times in ms, the  *)
(* speed factor in tenths. The yaw angle atan2(x, z) is kept as the unit    *)
(* vector (x, z) it is computed from.                                       *)

GROUND_Y == 50
SPAWN_Y == 10
MAX_DELTA == 33
REROUTE_COOLDOWN == 2500
STUCK_TIME == 800
ARRIVE_DIST == 500
AVOID_DIST == 900
STOP_DIST == 250
PROGRESS_EPS == 30
DEFAULT_SPEED == 20000

NoGoal == [has |-> FALSE, p |-> V3(0, 0, 0)]

\* the fields of a new Agent(scene, model, {speed}); occlCap: whether the
\* occlusion cap is shown and the distance in front of the agent it is built at
Agent(speed) ==
    [pos |-> V3(0, SPAWN_Y, 0), yaw |-> V3(0, 0, 1000), baseSpeed |-> speed, speed |-> speed,
     route |-> <<>>, routeIdx |-> 0, finalGoal |-> NoGoal,
     rerouteCooldown |-> 0, stuckAcc |-> 0, lastPos |-> V3(0, 0, 0),
     occlCap |-> [visible |-> FALSE, z |-> 0]]

WithY(p, y) == [p EXCEPT !.y = y]

setSpeedFactor(a, k) ==
    [a EXCEPT !.speed = RoundDiv((IF a.baseSpeed = 0 THEN 1000 ELSE a.baseSpeed) * (IF k = 0 THEN 10 ELSE k), 10)]

\* a route assignment that leaves the height of the position alone
setPolylineRouteKeepY(a, poly) ==
    [a EXCEPT !.route = [i \in 1..Len(poly) |-> WithY(poly[i], GROUND_Y)],
              !.routeIdx = 0,
              !.pos = IF Len(poly) > 0 THEN poly[1] ELSE a.pos,
              !.finalGoal = IF Len(poly) > 0 THEN [has |-> TRUE, p |-> WithY(poly[Len(poly)], GROUND_Y)]
                            ELSE a.finalGoal]

\* a route assignment that leaves the agent where it stands
setPolylineRouteKeepPos(a, poly) ==
    [a EXCEPT !.route = [i \in 1..Len(poly) |-> WithY(poly[i], GROUND_Y)],
              !.routeIdx = 0,
              !.pos = WithY(a.pos, GROUND_Y),
              !.finalGoal = IF Len(poly) > 0 THEN [has |-> TRUE, p |-> WithY(poly[Len(poly)], GROUND_Y)]
                            ELSE a.finalGoal]

\* with an empty polyline the last statement throws and finalGoal stays
setPolylineRoute(a, poly) ==
    [a EXCEPT !.route = [i \in 1..Len(poly) |-> WithY(poly[i], GROUND_Y)],
              !.routeIdx = 0,
              !.pos = WithY(IF Len(poly) > 0 THEN poly[1] ELSE a.pos, GROUND_Y),
              !.finalGoal = IF Len(poly) > 0 THEN [has |-> TRUE, p |-> WithY(poly[Len(poly)], GROUND_Y)]
                            ELSE a.finalGoal]

\* a position that is not the agent's
currentPositionOrigin(a) == V3(0, 0, 0)

currentPosition(a) == a.pos

\* a reroute that leaves finalGoal as it was
trySmartRerouteKeepGoal(a, roadGraph, shadeBias) ==
    IF ~roadGraph.passed \/ ~a.finalGoal.has \/ a.rerouteCooldown > 0 THEN [ok |-> FALSE, a |-> a]
    ELSE With(findRouteOnRoads(roadGraph.g, currentPosition(a), a.finalGoal.p, shadeBias), LAMBDA r :
         IF r.ok /\ Len(r.poly) > 1
         THEN [ok |-> TRUE, a |-> [setPolylineRoute(a, r.poly) EXCEPT !.rerouteCooldown = REROUTE_COOLDOWN,
                                                                     !.finalGoal = a.finalGoal]]
         ELSE [ok |-> FALSE, a |-> a])

\* a reroute that takes whatever polyline the pathfinder returns
trySmartRerouteAnyPoly(a, roadGraph, shadeBias) ==
    IF ~roadGraph.passed \/ ~a.finalGoal.has \/ a.rerouteCooldown > 0 THEN [ok |-> FALSE, a |-> a]
    ELSE With(findRouteOnRoads(roadGraph.g, currentPosition(a), a.finalGoal.p, shadeBias), LAMBDA r :
         IF r.ok
         THEN [ok |-> TRUE, a |-> [setPolylineRoute(a, r.poly) EXCEPT !.rerouteCooldown = REROUTE_COOLDOWN]]
         ELSE [ok |-> FALSE, a |-> a])

\* roadGraph is [passed, g]: the optional argument and the graph it carries
trySmartReroute(a, roadGraph, shadeBias) ==
    IF ~roadGraph.passed \/ ~a.finalGoal.has \/ a.rerouteCooldown > 0 THEN [ok |-> FALSE, a |-> a]
    ELSE With(findRouteOnRoads(roadGraph.g, currentPosition(a), a.finalGoal.p, shadeBias), LAMBDA r :
         IF r.ok /\ Len(r.poly) > 1
         THEN [ok |-> TRUE, a |-> [setPolylineRoute(a, r.poly) EXCEPT !.rerouteCooldown = REROUTE_COOLDOWN]]
         ELSE [ok |-> FALSE, a |-> a])

NoHit == 0 - 1

\* distance along the ray from p in direction dir to a wall x = wall.x, z0 <= z <= z1
HitWall(wall, p, dir) ==
    IF dir.x = 0 \/ (wall.x - p.x) * dir.x <= 0 THEN NoHit
    ELSE LET t == RoundDiv(Abs(wall.x - p.x) * 1000, Abs(dir.x))
             z == p.z + MulDiv(dir.z, t, 1000)
         IN  IF wall.z0 <= z /\ z <= wall.z1 THEN t ELSE NoHit

\* hits.find(isObstacle): the nearest obstacle-tagged hit of the ray, or NoHit
forwardHit(w, p, dir) ==
    With({HitWall(w.walls[i], p, dir) : i \in 1..Len(w.walls)} \ {NoHit}, LAMBDA ds :
        IF ds = {} THEN NoHit ELSE CHOOSE d \in ds : \A e \in ds : d <= e)

addScaledVector(p, dir, s) ==
    V3(p.x + RoundDiv(dir.x * s, 1000), p.y + RoundDiv(dir.y * s, 1000), p.z + RoundDiv(dir.z * s, 1000))

normalize(v, d) == V3(RoundDiv(v.x * 1000, d), 0, RoundDiv(v.z * 1000, d))

\* the last statement of update
PinY(a) == IF a.pos.y # GROUND_Y THEN [a EXCEPT !.pos = WithY(a.pos, GROUND_Y)] ELSE a

\* (this.speed || this.baseSpeed || 20) * delta
StepOf(a, delta) ==
    RoundDiv((IF a.speed # 0 THEN a.speed ELSE IF a.baseSpeed # 0 THEN a.baseSpeed ELSE DEFAULT_SPEED) * delta,
             1000)

\* a tick's record: the agent after it, the branch taken, whether _trySmartReroute
\* was called, whether it replaced the route, and the agent state it was called from
Tick(a, branch, tried, ok, from) == [a |-> a, branch |-> branch, tried |-> tried, ok |-> ok, from |-> from]

\* the stop branch, after the crawl
StopBranch(a, roadGraph, shadeBias) ==
    With(trySmartReroute(a, roadGraph, shadeBias), LAMBDA r : Tick(r.a, "stop", TRUE, r.ok, a))

\* the stuck bookkeeping of the avoid branch, after the slide and the move
StuckCheck(a, delta, roadGraph, shadeBias) ==
    With(IF distV(a.pos, a.lastPos) < PROGRESS_EPS THEN [a EXCEPT !.stuckAcc = a.stuckAcc + delta]
         ELSE [a EXCEPT !.stuckAcc = 0, !.lastPos = a.pos], LAMBDA a1 :
        IF a1.stuckAcc > STUCK_TIME
        THEN With(trySmartReroute(a1, roadGraph, shadeBias), LAMBDA r :
                 Tick(IF r.ok THEN [r.a EXCEPT !.stuckAcc = 0] ELSE r.a, "avoid", TRUE, r.ok, a1))
        ELSE Tick(a1, "avoid", FALSE, FALSE, a1))

EYE_HEIGHT == 1500
HEAD_OFFSET == 1000

\* raycaster.intersectObject(world, true), then hits.find(isObstacle)
intersectObstacle(rc, w) == forwardHit(w, rc.origin, rc.dir)

\* a probe that casts the ray the raycaster was left with
obstacleAheadStale(rc, w, start, dir) == intersectObstacle(rc, w)

\* the obstacle probe of update: raycaster.set(start, dirMove), then the cast
obstacleAhead(rc, w, start, dir) == intersectObstacle(raycasterSet(rc, start, dir), w)

\* a steering whose free step is not capped by the distance left
SteerUncapped(a, to, d, delta, w, roadGraph, shadeBias, rc) ==
    With(normalize(to, d), LAMBDA dirMove :
    With(obstacleAhead(rc, w, V3(a.pos.x, a.pos.y + EYE_HEIGHT, a.pos.z), dirMove), LAMBDA hit :
    With(StepOf(a, delta), LAMBDA STEP :
        IF hit # NoHit /\ hit < STOP_DIST
        THEN StopBranch([a EXCEPT !.yaw = dirMove,
                                  !.pos = addScaledVector(a.pos, dirMove, RoundDiv(STEP, 10))],
                        roadGraph, shadeBias)
        ELSE IF hit # NoHit /\ hit < AVOID_DIST
        THEN StuckCheck([a EXCEPT !.yaw = dirMove,
                                  !.pos = addScaledVector(
                                              addScaledVector(a.pos, V3(0 - dirMove.z, 0, dirMove.x),
                                                              RoundDiv((AVOID_DIST - hit) * 4, 10)),
                                              dirMove, RoundDiv(STEP * 6, 10))],
                        delta, roadGraph, shadeBias)
        ELSE With([a EXCEPT !.yaw = dirMove, !.pos = addScaledVector(a.pos, dirMove, STEP)],
                  LAMBDA a1 : Tick(a1, "free", FALSE, FALSE, a1)))))

\* the steering of one tick for an agent that is d away from its target
Steer(a, to, d, delta, w, roadGraph, shadeBias, rc) ==
    With(normalize(to, d), LAMBDA dirMove :
    With(obstacleAhead(rc, w, V3(a.pos.x, a.pos.y + EYE_HEIGHT, a.pos.z), dirMove), LAMBDA hit :
    With(StepOf(a, delta), LAMBDA STEP :
        IF hit # NoHit /\ hit < STOP_DIST
        THEN StopBranch([a EXCEPT !.yaw = dirMove,
                                  !.pos = addScaledVector(a.pos, dirMove, RoundDiv(STEP, 10))],
                        roadGraph, shadeBias)
        ELSE IF hit # NoHit /\ hit < AVOID_DIST
        THEN StuckCheck([a EXCEPT !.yaw = dirMove,
                                  !.pos = addScaledVector(
                                              addScaledVector(a.pos, V3(0 - dirMove.z, 0, dirMove.x),
                                                              RoundDiv((AVOID_DIST - hit) * 4, 10)),
                                              dirMove, RoundDiv(STEP * 6, 10))],
                        delta, roadGraph, shadeBias)
        ELSE With([a EXCEPT !.yaw = dirMove, !.pos = addScaledVector(a.pos, dirMove, Min2(STEP, d))],
                  LAMBDA a1 : Tick(a1, "free", FALSE, FALSE, a1)))))

FOV_RADIUS == 10000
FAN_SEGS == 28

\* Math.sin(t) and Math.cos(t) of the fan angles t = (i / fanSegs - 0.5) * 2 * half,
\* i = 0..fanSegs, for the half angle of 30 degrees, in 1/1000
FanSin ==
    <<0 - 500, 0 - 467, 0 - 434, 0 - 400, 0 - 365, 0 - 330, 0 - 295, 0 - 259, 0 - 223, 0 - 186, 0 - 149,
      0 - 112, 0 - 75, 0 - 37, 0, 37, 75, 112, 149, 186, 223, 259, 295, 330, 365, 400, 434, 467, 500>>
FanCos ==
    <<866, 884, 901, 917, 931, 944, 956, 966, 975, 983, 989, 994, 997, 999, 1000, 999, 997, 994, 989, 983,
      975, 966, 956, 944, 931, 917, 901, 884, 866>>

\* dir of fan ray i: (sin(yaw + t), 0, cos(yaw + t)), yaw given as (sin yaw, 0, cos yaw)
fanDir(yaw, i) ==
    V3(RoundDiv(yaw.x * FanCos[i + 1] + yaw.z * FanSin[i + 1], 1000), 0,
       RoundDiv(yaw.z * FanCos[i + 1] - yaw.x * FanSin[i + 1], 1000))

\* start of the fan rays: root.position + (0, headOffset, 0)
fanStart(a) == V3(a.pos.x, a.pos.y + HEAD_OFFSET, a.pos.z)

\* minHit after the loop over the fan rays: the loop computes each ray's hit
\* for the end point of the ray and never assigns minHit
fanMinHit(a, w) == Infinity

\* a loop that keeps the smallest obstacle distance of the fan in minHit
fanMinHitNearest(a, w) ==
    With({forwardHit(w, fanStart(a), fanDir(a.yaw, i)) : i \in 0..FAN_SEGS} \ {NoHit}, LAMBDA ds :
        IF ds = {} THEN Infinity ELSE CHOOSE d \in ds : \A e \in ds : d <= e)

\* _updateFOVSurface: the occlusion cap
updateFOVSurface(a, w) ==
    With(fanMinHit(a, w), LAMBDA minHit :
        IF minHit < Infinity /\ minHit < FOV_RADIUS
        THEN [a EXCEPT !.occlCap = [visible |-> TRUE, z |-> minHit]]
        ELSE [a EXCEPT !.occlCap = [visible |-> FALSE, z |-> a.occlCap.z]])

\* a tick that never steps the waypoint index
AdvanceNoIndex(a, delta, w, roadGraph, shadeBias, rc) ==
    With(a.route[Min2(a.routeIdx, Len(a.route) - 1) + 1], LAMBDA target :
    With(V3(target.x - a.pos.x, 0, target.z - a.pos.z), LAMBDA to :
    With(Length(to), LAMBDA d :
        IF d < ARRIVE_DIST
        THEN Tick(PinY(updateFOVSurface(a, w)), "arrive", FALSE, FALSE, a)
        ELSE With(Steer(a, to, d, delta, w, roadGraph, shadeBias, rc), LAMBDA s : [s EXCEPT !.a = PinY(updateFOVSurface(s.a, w))]))))

\* a tick that steps the waypoint index on every arrival, the last one too
AdvancePastEnd(a, delta, w, roadGraph, shadeBias, rc) ==
    With(a.route[Min2(a.routeIdx, Len(a.route) - 1) + 1], LAMBDA target :
    With(V3(target.x - a.pos.x, 0, target.z - a.pos.z), LAMBDA to :
    With(Length(to), LAMBDA d :
        IF d < ARRIVE_DIST
        THEN With([a EXCEPT !.routeIdx = a.routeIdx + 1], LAMBDA a3 : Tick(PinY(updateFOVSurface(a3, w)), "arrive", FALSE, FALSE, a3))
        ELSE With(Steer(a, to, d, delta, w, roadGraph, shadeBias, rc), LAMBDA s : [s EXCEPT !.a = PinY(updateFOVSurface(s.a, w))]))))

\* the tick of an agent with a route, after the cooldown step
Advance(a, delta, w, roadGraph, shadeBias, rc) ==
    With(a.route[Min2(a.routeIdx, Len(a.route) - 1) + 1], LAMBDA target :
    With(V3(target.x - a.pos.x, 0, target.z - a.pos.z), LAMBDA to :
    With(Length(to), LAMBDA d :
        IF d < ARRIVE_DIST
        THEN With(IF a.routeIdx < Len(a.route) - 1 THEN [a EXCEPT !.routeIdx = a.routeIdx + 1] ELSE a,
                  LAMBDA a3 : Tick(PinY(updateFOVSurface(a3, w)), "arrive", FALSE, FALSE, a3))
        ELSE With(Steer(a, to, d, delta, w, roadGraph, shadeBias, rc), LAMBDA s : [s EXCEPT !.a = PinY(updateFOVSurface(s.a, w))]))))

\* an update that pins the height before it looks at the route
updateTracePinFirst(a, dt, w, roadGraph, shadeBias, rc) ==
    With([a EXCEPT !.rerouteCooldown = Max2(0, a.rerouteCooldown - Min2(MAX_DELTA, dt))], LAMBDA a1 :
        IF Len(a1.route) = 0 THEN Tick(PinY(a1), "none", FALSE, FALSE, a1)
        ELSE Advance(IF a1.lastPos = V3(0, 0, 0) THEN [a1 EXCEPT !.lastPos = a1.pos] ELSE a1,
                     Min2(MAX_DELTA, dt), w, roadGraph, shadeBias, rc))

\* update(dt, raycaster, worldGroupForFit, roadGraph?, shadeBias); rc is the ray
\* the raycaster holds when update is called
updateTrace(a, dt, w, roadGraph, shadeBias, rc) ==
    With([a EXCEPT !.rerouteCooldown = Max2(0, a.rerouteCooldown - Min2(MAX_DELTA, dt))], LAMBDA a1 :
        IF Len(a1.route) = 0 THEN Tick(a1, "none", FALSE, FALSE, a1)
        ELSE Advance(IF a1.lastPos = V3(0, 0, 0) THEN [a1 EXCEPT !.lastPos = a1.pos] ELSE a1,
                     Min2(MAX_DELTA, dt), w, roadGraph, shadeBias, rc))

update(a, dt, w, roadGraph, shadeBias, rc) == updateTrace(a, dt, w, roadGraph, shadeBias, rc).a

\* the ray the raycaster holds after update: a tick that returns on the empty
\* route casts none, every other tick ends with the fan of _updateFOVSurface,
\* whose last ray (i = fanSegs) starts above the agent (an agent with a route
\* is at the ground height already, 607-610, so the pin moved nothing)
raycasterAfterUpdate(rc, tr) ==
    IF tr.branch = "none" THEN rc ELSE raycasterSet(rc, fanStart(tr.a), fanDir(tr.a.yaw, FAN_SEGS))

-----------------------------------------------------------------------------
(* The running application: the agents are added and seeded, then the     *)
(* animation loop runs one frame at a time.                               *)

AGENT_COUNT == 4
speeds == <<26000, 22000, 18000, 14000, 20000, 16000, 24000, 12000>>
REROUTE_PERIOD == 7000
MAX_FRAME_DT == 33

\* Math.random() returns stream[at] / RandDen
RandDen == 4

\* how many firings of the periodic reroute a behaviour is followed for
MaxRounds == 1

random(r) == [v |-> r.stream[r.at], rng |-> [r EXCEPT !.at = (r.at % Len(r.stream)) + 1]]

randomWorldPointInGraph(g, r) ==
    IF Len(g.edges) = 0 THEN [p |-> V3(0, 0, 0), rng |-> r]
    ELSE With(random(r), LAMBDA r1 :
         With(random(r1.rng), LAMBDA r2 :
         With(g.edges[(r1.v * Len(g.edges)) \div RandDen + 1], LAMBDA e :
             [p |-> Lerp(e.poly[1], e.poly[2], r2.v, RandDen), rng |-> r2.rng])))

seedAgentRoute(a, r) ==
    With(randomWorldPointInGraph(ROAD_GRAPH, r), LAMBDA src :
    With(randomWorldPointInGraph(ROAD_GRAPH, src.rng), LAMBDA dst :
    With(findRouteOnRoads(ROAD_GRAPH, src.p, dst.p, shadeRef), LAMBDA res :
        [a |-> setSpeedFactor(IF res.ok /\ Len(res.poly) > 1 THEN setPolylineRoute(a, res.poly) ELSE a,
                              speedRef),
         rng |-> dst.rng,
         call |-> [has |-> TRUE, start |-> src.p, goal |-> dst.p]])))

\* History of an agent: whether the last frame called update on it, the branch
\* the update took, whether it called _trySmartReroute, from which state and to
\* which; for the latest reroute attempt (steering or periodic) the simulated
\* time since the attempt before it (gap) and whether it changed the waypoint
\* list or the waypoint index (changed), the simulated time since it (age), both
\* times capped at REROUTE_COOLDOWN; and the number of stuck-triggered attempts
\* since stuckAcc was last zero (tries, capped at 2); and the findRouteOnRoads
\* call that seedAgentRoute or the periodic reroute made for the agent in the
\* latest step, if it made one (call: its start and goal points).
NewHist ==
    [updated |-> FALSE, branch |-> "none", tried |-> FALSE, from |-> Agent(0), to |-> Agent(0),
     age |-> REROUTE_COOLDOWN, gap |-> REROUTE_COOLDOWN, changed |-> FALSE, tries |-> 0,
     call |-> [has |-> FALSE, start |-> V3(0, 0, 0), goal |-> V3(0, 0, 0)]]

RouteChanged(a, b) == a.route # b.route \/ a.routeIdx # b.routeIdx

AfterUpdate(h, a, tr, delta) ==
    [updated |-> TRUE, branch |-> tr.branch, tried |-> tr.tried, from |-> tr.from, to |-> tr.a,
     age |-> IF tr.tried THEN 0 ELSE Min2(REROUTE_COOLDOWN, h.age + delta),
     gap |-> IF tr.tried THEN Min2(REROUTE_COOLDOWN, h.age + delta) ELSE h.gap,
     changed |-> IF tr.tried THEN RouteChanged(tr.from, tr.a) ELSE h.changed,
     tries |-> Min2(2, (IF a.stuckAcc = 0 THEN 0 ELSE h.tries)
                       + (IF tr.tried /\ tr.branch = "avoid" THEN 1 ELSE 0)),
     call |-> NewHist.call]

NotUpdated(h) == [h EXCEPT !.updated = FALSE, !.branch = "none", !.tried = FALSE, !.call = NewHist.call]

AfterAuto(h, changed, start, goal) ==
    [h EXCEPT !.age = 0, !.gap = h.age, !.changed = changed,
              !.call = [has |-> TRUE, start |-> start, goal |-> goal]]

\* the loop of the periodic reroute over the agents, from agent i on
RECURSIVE AutoReroute(_, _, _, _)
AutoReroute(as, hs, r, i) ==
    IF i > Len(as) THEN [agents |-> as, hist |-> hs, rng |-> r]
    ELSE With(randomWorldPointInGraph(ROAD_GRAPH, r), LAMBDA dst :
         With(findRouteOnRoads(ROAD_GRAPH, currentPosition(as[i]), dst.p, shadeRef), LAMBDA res :
         With([as EXCEPT ![i] = IF res.ok /\ Len(res.poly) > 1 THEN setPolylineRoute(as[i], res.poly)
                                 ELSE as[i]], LAMBDA as1 :
         With([hs EXCEPT ![i] = AfterAuto(hs[i], RouteChanged(as[i], as1[i]), currentPosition(as[i]), dst.p)],
              LAMBDA hs1 :
             AutoReroute(as1, hs1, dst.rng, i + 1)))))

\* one iteration of ensureAgentCount: addAgent, push, seedAgentRoute
SeedAgent ==
    /\ stage = "route"
    /\ Len(agents) < AGENT_COUNT
    /\ agents' = Append(agents, seedAgentRoute(Agent(speeds[(Len(agents) % Len(speeds)) + 1]), rng).a)
    /\ rng' = seedAgentRoute(Agent(speeds[(Len(agents) % Len(speeds)) + 1]), rng).rng
    /\ hist' = Append(hist, [NewHist EXCEPT
                                 !.call = seedAgentRoute(Agent(speeds[(Len(agents) % Len(speeds)) + 1]), rng).call])
    /\ UNCHANGED <<stage, lastRoute, pausedRef, autoRerouteRef, speedRef, shadeRef, rerouteAcc, frameDt, rounds, ticks>>
    /\ UNCHANGED graphVars
    /\ UNCHANGED lifeVars
    /\ UNCHANGED sunVars
    /\ UNCHANGED pickVars

\* the end of the setup: the mouse listeners (1450-1451), the first
\* requestAnimationFrame(animate) (1505) and the key listener (1523)
StartLoop ==
    /\ stage = "route"
    /\ Len(agents) = AGENT_COUNT
    /\ stage' = "run"
    /\ listeners' = listeners \cup {"mousemove", "click", "keydown"}
    /\ rafScheduled' = TRUE
    /\ UNCHANGED <<lastRoute, mounted, disposed>>
    /\ UNCHANGED graphVars
    /\ UNCHANGED simVars
    /\ UNCHANGED sunVars
    /\ UNCHANGED pickVars

\* dt of a frame
FrameDelta == Min2(MAX_FRAME_DT, frameDt)

\* an agent loop that does not look at the pause flag
UpdateAgentAlways(a, h, rc) ==
    With(updateTrace(setSpeedFactor(a, speedRef), FrameDelta, world,
                     [passed |-> FALSE, g |-> ROAD_GRAPH], 0, rc), LAMBDA tr :
        [a |-> tr.a, h |-> AfterUpdate(h, a, tr, Min2(MAX_DELTA, FrameDelta)),
         rc |-> raycasterAfterUpdate(rc, tr)])

\* the body of the loop over the agents: setSpeedFactor, and update unless
\* paused (the road graph and the shade bias are not passed to update); rc is
\* the ray the shared raycaster holds when the agent's turn comes
UpdateAgent(a, h, rc) ==
    IF pausedRef THEN [a |-> setSpeedFactor(a, speedRef), h |-> NotUpdated(h), rc |-> rc]
    ELSE With(updateTrace(setSpeedFactor(a, speedRef), FrameDelta, world,
                          [passed |-> FALSE, g |-> ROAD_GRAPH], 0, rc), LAMBDA tr :
             [a |-> tr.a, h |-> AfterUpdate(h, a, tr, Min2(MAX_DELTA, FrameDelta)),
              rc |-> raycasterAfterUpdate(rc, tr)])

\* for (const a of agents), from agent i on: every agent is handed the one
\* raycaster, as the agent before it left it
RECURSIVE UpdateAgents(_, _, _, _)
UpdateAgents(as, hs, rc, i) ==
    IF i > Len(as) THEN [agents |-> as, hist |-> hs, raycaster |-> rc]
    ELSE With(UpdateAgent(as[i], hs[i], rc), LAMBDA u :
             UpdateAgents([as EXCEPT ![i] = u.a], [hs EXCEPT ![i] = u.h], u.rc, i + 1))

\* the agents, the raycaster, the accumulator and the generator after one frame
Frame ==
    With(UpdateAgents(agents, hist, raycaster, 1), LAMBDA u :
        IF ~autoRerouteRef \/ pausedRef
        THEN [agents |-> u.agents, hist |-> u.hist, raycaster |-> u.raycaster, rng |-> rng,
              rerouteAcc |-> rerouteAcc, rounds |-> rounds]
        ELSE IF rerouteAcc + FrameDelta > REROUTE_PERIOD
        THEN With(AutoReroute(u.agents, u.hist, rng, 1), LAMBDA rr :
                 [agents |-> rr.agents, hist |-> rr.hist, raycaster |-> u.raycaster, rng |-> rr.rng,
                  rerouteAcc |-> 0, rounds |-> rounds + 1])
        ELSE [agents |-> u.agents, hist |-> u.hist, raycaster |-> u.raycaster, rng |-> rng,
              rerouteAcc |-> rerouteAcc + FrameDelta, rounds |-> rounds])

\* one frame of animate: nothing when disposed; else the sun, the agents, the
\* periodic reroute, and the request for the next frame
Animate ==
    /\ stage = "run"
    /\ rafScheduled
    /\ rounds < MaxRounds
    /\ IF disposed
       THEN /\ rafScheduled' = FALSE
            /\ UNCHANGED <<agents, hist, raycaster, rng, rerouteAcc, rounds, dirPosition, LIGHT_TO_POS>>
       ELSE /\ dirPosition' = SunStep(whenISO, dirPosition)
            /\ LIGHT_TO_POS' = IF DateOf(whenISO).valid THEN computeLightDir(SunStep(whenISO, dirPosition))
                                ELSE LIGHT_TO_POS
            /\ With(Frame, LAMBDA f :
                    /\ agents' = f.agents
                    /\ hist' = f.hist
                    /\ raycaster' = f.raycaster
                    /\ rng' = f.rng
                    /\ rerouteAcc' = f.rerouteAcc
                    /\ rounds' = f.rounds)
            /\ rafScheduled' = TRUE
    /\ UNCHANGED <<stage, lastRoute, pausedRef, autoRerouteRef, speedRef, shadeRef, frameDt, ticks>>
    /\ UNCHANGED <<mounted, disposed, listeners, whenISO, routeEditMode, pickSource>>
    /\ UNCHANGED graphVars

\* the space key or the pause button
TogglePaused ==
    /\ mounted
    /\ stage = "run"
    /\ pausedRef' = ~pausedRef
    /\ UNCHANGED <<stage, lastRoute, agents, autoRerouteRef, speedRef, shadeRef, rerouteAcc, frameDt,
                   rng, rounds, ticks, hist>>
    /\ UNCHANGED graphVars
    /\ UNCHANGED lifeVars
    /\ UNCHANGED sunVars
    /\ UNCHANGED pickVars

AppGeo == {<<<<P(0, 0), P(40000, 0)>>>>, <<<<P(0, 0), P(4000, 0), P(4000, 4000), P(0, 4000), P(0, 0)>>>>}

\* an open scene, and one with a ground, a canopy and a wall across the long road
AppWorlds ==
    {[kind |-> "open", x |-> 0, walls |-> <<>>],
     [kind |-> "east", x |-> 20000, walls |-> <<[x |-> 26000, z0 |-> 0 - 3000, z1 |-> 3000]>>,
      ground |-> TRUE]}

RandomStreams == {<<0, 0, 3, 3>>, <<2, 1, 2, 1, 0, 0, 3, 3>>, <<3, 2, 0, 1, 1, 3>>}

FrameTimes == {25, 40}

\* the positions of the speed slider that are tried, in tenths
SpeedFactors == {3, 10}

\* the speed slider (1646): k in tenths
SetSpeedK ==
    /\ mounted
    /\ stage = "load"
    /\ \E k \in SpeedFactors : k # speedRef /\ speedRef' = k
    /\ UNCHANGED <<stage, lastRoute, agents, pausedRef, autoRerouteRef, shadeRef, rerouteAcc, frameDt,
                   rng, rounds, ticks, hist>>
    /\ UNCHANGED graphVars
    /\ UNCHANGED lifeVars
    /\ UNCHANGED sunVars
    /\ UNCHANGED pickVars

\* the "r" key or the auto-reroute checkbox (1659)
ToggleAutoReroute ==
    /\ mounted
    /\ stage = "load"
    /\ autoRerouteRef' = ~autoRerouteRef
    /\ UNCHANGED <<stage, lastRoute, agents, pausedRef, speedRef, shadeRef, rerouteAcc, frameDt,
                   rng, rounds, ticks, hist>>
    /\ UNCHANGED graphVars
    /\ UNCHANGED lifeVars
    /\ UNCHANGED sunVars
    /\ UNCHANGED pickVars

Init ==
    /\ stage = "load"
    /\ world \in AppWorlds
    /\ geo \in AppGeo
    /\ ALL_CURVES = <<>>
    /\ ROAD_GRAPH = EmptyGraph
    /\ resolved = <<>>
    /\ lastRoute = NoCall
    /\ agents = NoAgents
    /\ pausedRef = FALSE
    /\ autoRerouteRef = TRUE
    /\ speedRef = 10
    /\ shadeRef = 10
    /\ rerouteAcc = 0
    /\ frameDt \in FrameTimes
    /\ rng \in {[stream |-> s, at |-> 1] : s \in RandomStreams}
    /\ rounds = 0
    /\ ticks = 0
    /\ hist = NoHist
    /\ roadsFetch = FetchOk
    /\ LifeIdle
    /\ SunIdle
    /\ PickIdle

Next ==
    \/ SetSpeedK \/ ToggleAutoReroute \/ LoadRoads \/ BuildGraph
    \/ SeedAgent \/ StartLoop \/ Animate \/ TogglePaused

Spec == Init /\ [][Next]_vars

-----------------------------------------------------------------------------
(* Claims about the agents in the running application (Spec) *)

Steered(h) == h.updated /\ h.branch \in {"free", "avoid", "stop"}

\* C7 (amended): in every state every agent that holds a route stands at the
\* ground offset 0.05, and an agent that was never given a route keeps the
\* height 0.01 of its construction, whether or not update was called on it.
C7_GroundOnceRouted ==
    \A i \in 1..Len(agents) :
        /\ Len(agents[i].route) > 0 => agents[i].pos.y = GROUND_Y
        /\ Len(agents[i].route) = 0 => agents[i].pos.y = SPAWN_Y

\* an agent the last frame steered along its route, and one it updated without a route
C7_Witness ==
    /\ \E i \in 1..Len(agents) : Steered(hist[i]) /\ agents[i].pos.y = GROUND_Y
    /\ \E i \in 1..Len(agents) : hist[i].updated /\ Len(agents[i].route) = 0

\* C7 (as stated): after every call of update every agent, routed or not, has
\* y equal to the ground offset 0.05.
C7_GroundAfterEveryTick ==
    \A i \in 1..Len(agents) : hist[i].updated => agents[i].pos.y = GROUND_Y

\* C8: a reroute attempt issued less than 2.5 s of simulated time after the
\* attempt before it leaves the waypoint list and the waypoint index unchanged.
C8_CooldownSuppresses ==
    \A i \in 1..Len(agents) : hist[i].gap < REROUTE_COOLDOWN => ~hist[i].changed

\* C10: a tick of the running simulation that takes the stop branch with the
\* cooldown at 0 while a path of more than one waypoint leads to the final goal
\* replaces the route by that path and sets the cooldown to 2.5 s.
C10_StopBranchReroutes ==
    \A i \in 1..Len(agents) :
        (/\ hist[i].updated
         /\ hist[i].branch = "stop"
         /\ hist[i].from.rerouteCooldown = 0
         /\ hist[i].from.finalGoal.has
         /\ Len(findRouteOnRoads(ROAD_GRAPH, hist[i].from.pos, hist[i].from.finalGoal.p, 0).poly) > 1)
        => /\ hist[i].to.rerouteCooldown = REROUTE_COOLDOWN
           /\ hist[i].to.routeIdx = 0
           /\ hist[i].to.route =
                  setPolylineRoute(hist[i].from,
                      findRouteOnRoads(ROAD_GRAPH, hist[i].from.pos, hist[i].from.finalGoal.p, 0).poly).route

-----------------------------------------------------------------------------
(* The Agent class driven on its own: one agent of any speed, a route set  *)
(* by setPolylineRoute, and update called with or without the road graph.  *)

\* speeds handed to the constructor: a crawl of 0.002 units/s and the default
AgentSpeeds == {2, DEFAULT_SPEED}

\* dt of the update calls of a behaviour, ms
TickTimes == {20, 33}

\* how many update calls a behaviour is followed for
MaxTicks == 28

AgentGeo == <<<<P(0, 0), P(8000, 0)>>>>

\* along the road to its end and to its last node, back along it, and to a goal
\* next to the road's first node
AgentRoutes ==
    {<<P(0, 0), P(8000, 0)>>, <<P(0, 0), P(7875, 0)>>, <<P(8000, 0), P(0, 0)>>, <<P(0, 0), P(520, 0)>>}

\* an open scene, and one with an obstacle 0.899 in front of the road's start
AgentWorlds ==
    {[kind |-> "open", x |-> 0, walls |-> <<>>],
     [kind |-> "open", x |-> 0, walls |-> <<[x |-> 899, z0 |-> 0 - 3000, z1 |-> 3000]>>]}

InitAgent ==
    /\ stage = "agent"
    /\ world \in AgentWorlds
    /\ geo = AgentGeo
    /\ ALL_CURVES = CurvesOf(AgentGeo, 1)
    /\ ROAD_GRAPH = buildRoadGraphFromCurves(CurvesOf(AgentGeo, 1), world, computeLightDir(SunPosition(DEFAULT_AZ, DEFAULT_ALT)))
    /\ resolved = <<>>
    /\ lastRoute = NoCall
    /\ agents \in {<<Agent(s)>> : s \in AgentSpeeds}
    /\ pausedRef = FALSE
    /\ autoRerouteRef = TRUE
    /\ speedRef = 10
    /\ shadeRef \in Biases
    /\ rerouteAcc = 0
    /\ frameDt \in TickTimes
    /\ rng = NoRandom
    /\ rounds = 0
    /\ ticks = 0
    /\ hist = <<NewHist>>
    /\ roadsFetch = FetchOk
    /\ LifeIdle
    /\ SunIdle
    /\ raycaster = raycasterAfterShades(NewRaycaster, ROAD_GRAPH,
                                        computeLightDir(SunPosition(DEFAULT_AZ, DEFAULT_ALT)))
    /\ routeEditMode = "off"
    /\ pickSource = NoGoal

\* agent.setPolylineRoute(poly)
AgentSetRoute ==
    /\ stage = "agent"
    /\ Len(agents[1].route) = 0
    /\ \E poly \in AgentRoutes : agents' = <<setPolylineRoute(agents[1], poly)>>
    /\ UNCHANGED <<stage, lastRoute, pausedRef, autoRerouteRef, speedRef, shadeRef, rerouteAcc, frameDt,
                   rng, rounds, ticks, hist>>
    /\ UNCHANGED graphVars
    /\ UNCHANGED lifeVars
    /\ UNCHANGED sunVars
    /\ UNCHANGED pickVars

\* agent.update(dt, raycaster, world, roadGraph?, shadeBias)
AgentUpdate ==
    /\ stage = "agent"
    /\ ticks < MaxTicks
    /\ \E passed \in BOOLEAN :
           With(updateTrace(agents[1], frameDt, world, [passed |-> passed, g |-> ROAD_GRAPH], shadeRef,
                            raycaster),
                LAMBDA tr :
                    /\ agents' = <<tr.a>>
                    /\ hist' = <<AfterUpdate(hist[1], agents[1], tr, Min2(MAX_DELTA, frameDt))>>
                    /\ raycaster' = raycasterAfterUpdate(raycaster, tr))
    /\ ticks' = ticks + 1
    /\ UNCHANGED <<routeEditMode, pickSource>>
    /\ UNCHANGED <<stage, lastRoute, pausedRef, autoRerouteRef, speedRef, shadeRef, rerouteAcc, frameDt,
                   rng, rounds>>
    /\ UNCHANGED graphVars
    /\ UNCHANGED lifeVars
    /\ UNCHANGED sunVars

NextAgent == AgentSetRoute \/ AgentUpdate

SpecAgent == InitAgent /\ [][NextAgent]_vars

-----------------------------------------------------------------------------
(* The running application with the events of its surroundings: the view   *)
(* may unmount at any point, and the sun presets may be applied.           *)

\* the hosting view unmounts: React runs the function the effect returned;
\* the effect (826-1541) returns nothing, its cleanup function (1526-1538) is
\* the result of the async setup and is never handed to React
Unmount ==
    /\ mounted
    /\ mounted' = FALSE
    /\ UNCHANGED <<disposed, rafScheduled, listeners, stage, lastRoute>>
    /\ UNCHANGED graphVars
    /\ UNCHANGED simVars
    /\ UNCHANGED sunVars
    /\ UNCHANGED pickVars

\* applyPreset("noon" | "sunset" | "night") (1588-1595)
ApplyPreset ==
    /\ mounted
    /\ DateOf(whenISO).valid
    /\ \E w \in {WhenNoon, WhenSunset, WhenNight} : w # whenISO /\ whenISO' = w
    /\ UNCHANGED <<dirPosition, LIGHT_TO_POS, stage, lastRoute>>
    /\ UNCHANGED graphVars
    /\ UNCHANGED simVars
    /\ UNCHANGED lifeVars
    /\ UNCHANGED pickVars

\* one display, one scene, one stream of random values
InitLive ==
    /\ Init
    /\ world.kind = "east"
    /\ geo = <<<<P(0, 0), P(40000, 0)>>>>
    /\ frameDt = 40
    /\ rng.stream = <<0, 0, 3, 3>>

NextLive ==
    \/ LoadRoads \/ BuildGraph \/ SeedAgent \/ StartLoop
    \/ Animate \/ TogglePaused \/ ApplyPreset \/ Unmount

SpecLive == InitLive /\ [][NextLive]_vars

\* C11: once the view is unmounted no animation frame stays requested, no
\* listener stays registered, and no frame of the loop runs any more (no step
\* of the running loop changes the agents, the reroute accumulator or the sun).
C11_TornDownAfterUnmount ==
    /\ [](~mounted => (~rafScheduled /\ listeners = {}))
    /\ [][(~mounted /\ stage = "run") => UNCHANGED <<agents, hist, rerouteAcc, dirPosition>>]_vars

-----------------------------------------------------------------------------
(* Claims about the shade scores the pathfinder reads *)

\* C12: at every call of findRouteOnRoads every edge's shade score is the one
\* computed for the current light direction: after a frame whose periodic
\* reroute called the pathfinder (the sun step of the frame came before it),
\* the scores of the graph are those of the light direction the frame set.
C12_ShadeScoresCurrent ==
    (stage = "run" /\ rounds > 0) =>
        \A k \in 1..Len(ROAD_GRAPH.edges) :
            ROAD_GRAPH.edges[k].shadeScore
                = approximateEdgeShade(ROAD_GRAPH.edges[k].poly, world, LIGHT_TO_POS)

-----------------------------------------------------------------------------
(* The setup and the loop over every outcome of the request for the road   *)
(* data, with the clicks on the canvas.                                    *)

CAMERA_POS == V3(0, 10000, 20000)

\* clientToGroundPoint for a pointer over the ground point p:
\* raycaster.setFromCamera casts from the camera (851) through the pointer
clientToGroundRay(rc, p) ==
    With(Sub(p, CAMERA_POS), LAMBDA v :
        raycasterSet(rc, CAMERA_POS,
                     V3(RoundDiv(v.x * 1000, Length(v)), RoundDiv(v.y * 1000, Length(v)),
                        RoundDiv(v.z * 1000, Length(v)))))

\* onClick (1431-1448) for a click that hits the ground at p, run with the
\* routeEditMode and pickSource the handler reads: the agents and pickSource
\* after it, and the mode it hands to setRouteEditMode, if any
onClick(mode, source, p, as) ==
    IF mode = "source"
    THEN [agents |-> as, pickSource |-> [has |-> TRUE, p |-> p], set |-> TRUE, to |-> "dest"]
    ELSE IF mode = "dest" /\ source.has
    THEN With(findRouteOnRoads(ROAD_GRAPH, source.p, p, shadeRef), LAMBDA res :
             [agents |-> IF res.ok /\ Len(res.poly) > 1 /\ Len(as) > 0
                         THEN [as EXCEPT ![1] = setPolylineRoute(as[1], res.poly)] ELSE as,
              pickSource |-> NoGoal, set |-> TRUE, to |-> "off"])
    ELSE [agents |-> as, pickSource |-> source, set |-> FALSE, to |-> mode]

\* the routeEditMode the handlers read.  The effect that defines them runs
\* once, after the first render (dependency list [], 1541), so they close over
\* the routeEditMode constant of that render: the initial state (720).
ModeOfFirstRender == "off"

\* a click on the canvas over the ground point p
Click ==
    /\ stage = "run"
    /\ "click" \in listeners
    /\ \E p \in RoutePoints :
           With(onClick(ModeOfFirstRender, pickSource, p, agents), LAMBDA r :
               /\ agents' = r.agents
               /\ pickSource' = r.pickSource
               /\ routeEditMode' = IF r.set THEN r.to ELSE routeEditMode
               /\ raycaster' = clientToGroundRay(raycaster, p))
    /\ UNCHANGED <<stage, lastRoute, pausedRef, autoRerouteRef, speedRef, shadeRef, rerouteAcc, frameDt,
                   rng, rounds, ticks, hist>>
    /\ UNCHANGED graphVars
    /\ UNCHANGED lifeVars
    /\ UNCHANGED sunVars

\* the button "manual route" (1661): enabled while the mode is "off"
StartPick ==
    /\ mounted
    /\ routeEditMode = "off"
    /\ routeEditMode' = "source"
    /\ UNCHANGED <<stage, lastRoute, raycaster, pickSource>>
    /\ UNCHANGED graphVars
    /\ UNCHANGED simVars
    /\ UNCHANGED lifeVars
    /\ UNCHANGED sunVars

InitRoads ==
    /\ stage = "load"
    /\ world = [kind |-> "open", x |-> 0, walls |-> <<>>]
    /\ geo = <<<<P(0, 0), P(40000, 0)>>>>
    /\ roadsFetch \in FetchOutcomes
    /\ ALL_CURVES = <<>>
    /\ ROAD_GRAPH = EmptyGraph
    /\ resolved = <<>>
    /\ lastRoute = NoCall
    /\ agents = NoAgents
    /\ pausedRef = FALSE
    /\ autoRerouteRef = TRUE
    /\ speedRef = 10
    /\ shadeRef = 10
    /\ rerouteAcc = 0
    /\ frameDt = 40
    /\ rng = [stream |-> <<0, 0, 3, 3>>, at |-> 1]
    /\ rounds = 0
    /\ ticks = 0
    /\ hist = NoHist
    /\ LifeIdle
    /\ SunIdle
    /\ PickIdle

NextRoads == LoadRoads \/ BuildGraph \/ SeedAgent \/ StartLoop \/ Animate \/ Click

SpecRoads == InitRoads /\ [][NextRoads]_vars

\* C19: when the road data cannot be fetched or is malformed the setup goes on
\* with the built-in polyline: it does not end early, and once the graph is
\* built the curve set and the road graph are non-empty.
C19_FallbackRoads ==
    roadsFetch # FetchOk =>
        /\ stage # "failed"
        /\ stage \in {"route", "run"} => (Len(ALL_CURVES) > 0 /\ Len(ROAD_GRAPH.edges) > 0)

-----------------------------------------------------------------------------
(* Every caller of findRouteOnRoads: the setup and the loop of the          *)
(* application over the fetch outcomes (seeding, the periodic reroute, the  *)
(* click handler), and the Agent class handed a road graph (steering).      *)

SpecCallers == (InitRoads \/ InitAgent) /\ [][NextRoads \/ NextAgent]_vars

\* C13: when the pathfinding of a caller fails (none, or fewer than 2 points)
\* the agent keeps its route, waypoint index, final goal and position: for
\* _trySmartReroute from the state it was called in (from) to the end of the
\* tick (to); for seedAgentRoute the agent stays as constructed; for the
\* periodic reroute it stays as update left it.  (The click handler never
\* gets as far as the pathfinder.)
C13_FailureKeepsRoute ==
    \A i \in 1..Len(agents) :
        /\ (/\ hist[i].tried
            /\ hist[i].from.finalGoal.has
            /\ hist[i].from.rerouteCooldown = 0
            /\ Len(findRouteOnRoads(ROAD_GRAPH, hist[i].from.pos, hist[i].from.finalGoal.p, shadeRef).poly) < 2)
           => /\ hist[i].to.route = hist[i].from.route
              /\ hist[i].to.routeIdx = hist[i].from.routeIdx
              /\ hist[i].to.finalGoal = hist[i].from.finalGoal
              /\ hist[i].to.pos = hist[i].from.pos
        /\ (/\ hist[i].call.has
            /\ Len(findRouteOnRoads(ROAD_GRAPH, hist[i].call.start, hist[i].call.goal, shadeRef).poly) < 2)
           => IF hist[i].updated
              THEN /\ agents[i].route = hist[i].to.route
                   /\ agents[i].routeIdx = hist[i].to.routeIdx
                   /\ agents[i].finalGoal = hist[i].to.finalGoal
                   /\ agents[i].pos = hist[i].to.pos
              ELSE /\ agents[i].route = Agent(0).route
                   /\ agents[i].routeIdx = Agent(0).routeIdx
                   /\ agents[i].finalGoal = Agent(0).finalGoal
                   /\ agents[i].pos = Agent(0).pos

\* a frame whose periodic reroute found no route for one agent (which had a
\* route) and a route for another
C13_Witness ==
    /\ stage = "run"
    /\ \E i \in 1..Len(agents) :
          /\ hist[i].updated /\ hist[i].call.has
          /\ Len(hist[i].to.route) > 1
          /\ Len(findRouteOnRoads(ROAD_GRAPH, hist[i].call.start, hist[i].call.goal, shadeRef).poly) < 2
    /\ \E j \in 1..Len(agents) :
          /\ hist[j].updated /\ hist[j].call.has
          /\ Len(findRouteOnRoads(ROAD_GRAPH, hist[j].call.start, hist[j].call.goal, shadeRef).poly) > 1

-----------------------------------------------------------------------------
(* Claims about the result of a route query (SpecRoute) *)

\* C14: findRouteOnRoads returns none exactly when the graph has no edge to
\* snap onto or no path of edges joins the node nearest the snapped start to
\* the node nearest the snapped goal; otherwise it returns a polyline, which
\* runs from the one node to the other.
C14_NoneExactlyWhenNoPath ==
    lastRoute.called =>
        /\ ~lastRoute.res.ok <=>
              \/ Len(ROAD_GRAPH.edges) = 0
              \/ MinCostTo(ROAD_GRAPH, LengthTable(ROAD_GRAPH),
                           nearestNodeToPoint(ROAD_GRAPH, snapToGraph(ROAD_GRAPH, lastRoute.goal).q))
                     [nearestNodeToPoint(ROAD_GRAPH, snapToGraph(ROAD_GRAPH, lastRoute.start).q)]
                   >= Infinity \div 2
        /\ lastRoute.res.ok =>
              /\ Len(lastRoute.res.poly) >= 1
              /\ lastRoute.res.poly[1]
                    = ROAD_GRAPH.nodes[nearestNodeToPoint(ROAD_GRAPH, snapToGraph(ROAD_GRAPH, lastRoute.start).q)].p
              /\ lastRoute.res.poly[Len(lastRoute.res.poly)]
                    = ROAD_GRAPH.nodes[nearestNodeToPoint(ROAD_GRAPH, snapToGraph(ROAD_GRAPH, lastRoute.goal).q)].p

\* a query on a graph with edges that came back with none
C14_Witness ==
    /\ lastRoute.called
    /\ ~lastRoute.res.ok
    /\ Len(ROAD_GRAPH.edges) > 0

-----------------------------------------------------------------------------
(* Repeated route queries on the three-node graph, each by a caller that   *)
(* hands a polyline of more than one point to an agent's setPolylineRoute; *)
(* hist keeps the calls in order.                                          *)

\* how many calls a behaviour is followed for
MaxCalls == 3

\* the nodes if the route shared the position objects of the nodes of the path
nodesAfterSetRouteShared(g, path) ==
    [n \in 1..Len(g.nodes) |->
        IF \E i \in 1..Len(path) : path[i] = n
        THEN [g.nodes[n] EXCEPT !.p = WithY(g.nodes[n].p, GROUND_Y)] ELSE g.nodes[n]]

\* the nodes after a caller gave the polyline of the node path to
\* setPolylineRoute: the polyline holds clones of the node positions (343-345)
\* and the route clones of those (604), so setting y on the route's points
\* (608) writes to no node
nodesAfterSetRoute(g, path) == g.nodes


InitRepeat ==
    /\ stage = "repeat"
    /\ world = [kind |-> "open", x |-> 0, walls |-> <<>>]
    /\ geo = <<>>
    /\ ALL_CURVES = <<>>
    /\ ROAD_GRAPH = GraphOf(ScenarioNodes, ScenarioEdges)
    /\ resolved = <<>>
    /\ lastRoute = NoCall
    /\ roadsFetch = FetchOk
    /\ LifeIdle
    /\ SunIdle
    /\ PickIdle
    /\ agents = <<Agent(DEFAULT_SPEED)>>
    /\ pausedRef = FALSE
    /\ autoRerouteRef = TRUE
    /\ speedRef = 10
    /\ shadeRef = 10
    /\ rerouteAcc = 0
    /\ frameDt = 0
    /\ rng = NoRandom
    /\ rounds = 0
    /\ ticks = 0
    /\ hist = NoHist

\* poly = findRouteOnRoads(g, s, t, b); if (poly && poly.length > 1) agent.setPolylineRoute(poly)
RouteAndSet ==
    /\ stage = "repeat"
    /\ Len(hist) < MaxCalls
    /\ \E s \in {ScenarioNodes[1], ScenarioNodes[2], ScenarioNodes[3], P(5000, 5000)}, b \in {0, BiasSteps} :
       \E t \in {ScenarioNodes[1], ScenarioNodes[2], ScenarioNodes[3], P(5000, 5000)} :
          With(findRouteOnRoads(ROAD_GRAPH, s, t, b), LAMBDA res :
              /\ lastRoute' = [called |-> TRUE, start |-> s, goal |-> t, shadeBias |-> b, res |-> res]
              /\ hist' = Append(hist, [called |-> TRUE, start |-> s, goal |-> t, shadeBias |-> b, res |-> res])
              /\ agents' = <<IF res.ok /\ Len(res.poly) > 1 THEN setPolylineRoute(agents[1], res.poly)
                             ELSE agents[1]>>
              /\ ROAD_GRAPH' = [ROAD_GRAPH EXCEPT
                                  !.nodes = IF res.ok /\ Len(res.poly) > 1
                                            THEN nodesAfterSetRoute(ROAD_GRAPH, res.nodePath)
                                            ELSE ROAD_GRAPH.nodes])
    /\ UNCHANGED <<stage, world, geo, roadsFetch, ALL_CURVES, resolved>>
    /\ UNCHANGED <<pausedRef, autoRerouteRef, speedRef, shadeRef, rerouteAcc, frameDt, rng, rounds, ticks>>
    /\ UNCHANGED lifeVars
    /\ UNCHANGED sunVars
    /\ UNCHANGED pickVars

SpecRepeat == InitRepeat /\ [][RouteAndSet]_vars

-----------------------------------------------------------------------------
(* Claims about the periodic reroute and the pause (Spec) *)

C17_PausedFreezes ==
    /\ [][(stage = "run" /\ pausedRef /\ pausedRef') =>
              /\ rerouteAcc' = rerouteAcc
              /\ \A i \in 1..Len(agents) :
                    /\ agents'[i].pos = agents[i].pos
                    /\ agents'[i].yaw = agents[i].yaw
                    /\ agents'[i].route = agents[i].route
                    /\ agents'[i].routeIdx = agents[i].routeIdx
                    /\ agents'[i].stuckAcc = agents[i].stuckAcc
                    /\ agents'[i].rerouteCooldown = agents[i].rerouteCooldown]_vars
    /\ []((stage = "run" /\ pausedRef) => rafScheduled)

\* a frame ran while paused (it marked the agents as not updated) after frames
\* that had advanced the accumulator and moved an agent along its route
C17_Witness ==
    /\ stage = "run"
    /\ pausedRef
    /\ rerouteAcc > 0
    /\ \A i \in 1..Len(agents) : ~hist[i].updated
    /\ \E i \in 1..Len(agents) : agents[i].routeIdx > 0 /\ agents[i].yaw # Agent(0).yaw

-----------------------------------------------------------------------------
(* Claims about the final goal of a steering reroute (SpecAgent) *)

-----------------------------------------------------------------------------
(* The sun controls of the stand-alone page (public/lib/citySim.ts) *)

\* the texts typed into the timestamp field: the timestamps DateOf parses, and
\* three texts new Date() turns into an invalid date
WhenTexts ==
    {WhenDefault, WhenNoon, WhenSunset, WhenNight, "2025-10-11T03:00:00Z", "2025-10-11T06:00:00Z",
     "2025-10-11T09:00:00Z", "2025-10-11T15:00:00Z", "", "noon", "2025-13-41T12:00:00Z"}

\* solarPositionLocal without its isNaN guard: every term of the formula is NaN
solarPositionLocalUnguarded(when) ==
    CASE ~DateOf(when).valid -> [nan |-> TRUE, azimuth |-> 0, altitude |-> 0]
      [] DateOf(when).hour = 0 -> [nan |-> FALSE, azimuth |-> 79, altitude |-> 0 - 27]
      [] DateOf(when).hour = 3 -> [nan |-> FALSE, azimuth |-> 102, altitude |-> 4]
      [] DateOf(when).hour = 6 -> [nan |-> FALSE, azimuth |-> 135, altitude |-> 36]
      [] DateOf(when).hour = 9 -> [nan |-> FALSE, azimuth |-> 194, altitude |-> 46]
      [] DateOf(when).hour = 12 -> [nan |-> FALSE, azimuth |-> 242, altitude |-> 23]
      [] DateOf(when).hour = 15 -> [nan |-> FALSE, azimuth |-> 270, altitude |-> 0 - 12]
      [] OTHER -> [nan |-> FALSE, azimuth |-> 303, altitude |-> 0 - 47]

\* solarPositionLocal(35.6892, 51.389, whenISO) on 2025-10-11, rounded to whole
\* degrees: 79.20/-26.67 at 00:30, 101.60/3.58 at 03:00, 135.17/35.70 at 06:00,
\* 193.98/45.98 at 09:00, 241.56/22.92 at 12:00, 269.57/-12.26 at 15:00,
\* 302.64/-47.22 at 18:00; the fixed pair for a date that is NaN
solarPositionLocal(when) ==
    CASE ~DateOf(when).valid -> [nan |-> FALSE, azimuth |-> DEFAULT_AZ, altitude |-> DEFAULT_ALT]
      [] DateOf(when).hour = 0 -> [nan |-> FALSE, azimuth |-> 79, altitude |-> 0 - 27]
      [] DateOf(when).hour = 3 -> [nan |-> FALSE, azimuth |-> 102, altitude |-> 4]
      [] DateOf(when).hour = 6 -> [nan |-> FALSE, azimuth |-> 135, altitude |-> 36]
      [] DateOf(when).hour = 9 -> [nan |-> FALSE, azimuth |-> 194, altitude |-> 46]
      [] DateOf(when).hour = 12 -> [nan |-> FALSE, azimuth |-> 242, altitude |-> 23]
      [] DateOf(when).hour = 15 -> [nan |-> FALSE, azimuth |-> 270, altitude |-> 0 - 12]
      [] OTHER -> [nan |-> FALSE, azimuth |-> 303, altitude |-> 0 - 47]

\* the page after start(): the sun at the default pair, the timestamp field at
\* its initial value, the latitude and longitude fields left at their values
InitSun ==
    /\ stage = "sun"
    /\ world = [kind |-> "open", x |-> 0, walls |-> <<>>]
    /\ geo = <<>>
    /\ ALL_CURVES = <<>>
    /\ ROAD_GRAPH = EmptyGraph
    /\ resolved = <<>>
    /\ lastRoute = NoCall
    /\ agents = NoAgents
    /\ pausedRef = FALSE
    /\ autoRerouteRef = TRUE
    /\ speedRef = 10
    /\ shadeRef = 10
    /\ rerouteAcc = 0
    /\ frameDt = 40
    /\ rng = NoRandom
    /\ rounds = 0
    /\ ticks = 0
    /\ hist = NoHist
    /\ roadsFetch = FetchOk
    /\ LifeIdle
    /\ SunIdle
    /\ PickIdle

\* the user edits the timestamp field
TypeWhen ==
    /\ stage = "sun"
    /\ \E w \in WhenTexts : w # whenISO /\ whenISO' = w
    /\ UNCHANGED <<stage, graphVars, lastRoute, simVars, lifeVars, dirPosition, LIGHT_TO_POS>>
    /\ UNCHANGED pickVars

\* applySunFromInputs(useAPI) of the two sun buttons: the API placeholder
\* answers null, so both take solarPositionLocal, then setSunByAzAlt and
\* computeLightDir; a NaN azimuth makes every coordinate of both vectors NaN.
\* hist records the text applied and the sun before it.
ApplySun ==
    /\ stage = "sun"
    /\ \E useAPI \in BOOLEAN :
        /\ dirPosition' =
              IF solarPositionLocal(whenISO).nan THEN [nan |-> TRUE]
              ELSE SunPosition(solarPositionLocal(whenISO).azimuth, solarPositionLocal(whenISO).altitude)
        /\ LIGHT_TO_POS' =
              IF solarPositionLocal(whenISO).nan THEN [nan |-> TRUE]
              ELSE computeLightDir(SunPosition(solarPositionLocal(whenISO).azimuth,
                                               solarPositionLocal(whenISO).altitude))
        /\ hist' = <<[when |-> whenISO, before |-> dirPosition, useAPI |-> useAPI]>>
    /\ UNCHANGED <<stage, graphVars, lastRoute, agents, pausedRef, autoRerouteRef, speedRef, shadeRef,
                   rerouteAcc, frameDt, rng, rounds, ticks, lifeVars, whenISO>>
    /\ UNCHANGED pickVars

SpecSun == InitSun /\ [][TypeWhen \/ ApplySun]_vars

\* C18: after the sun buttons applied a timestamp text that is not a date, the
\* sun stands at the fixed pair azimuth 160 / altitude 45 and the light
\* direction is the one computed from that position, whatever sun the
\* timestamps applied earlier had left; no coordinate of either is NaN.
C18_InvalidTimestampFallback ==
    (stage = "sun" /\ hist # NoHist /\ ~DateOf(hist[1].when).valid) =>
        /\ dirPosition = SunPosition(DEFAULT_AZ, DEFAULT_ALT)
        /\ LIGHT_TO_POS = computeLightDir(SunPosition(DEFAULT_AZ, DEFAULT_ALT))
        /\ "nan" \notin DOMAIN dirPosition
        /\ "nan" \notin DOMAIN LIGHT_TO_POS

\* a text that is not a date was applied while the sun stood where an earlier
\* valid timestamp had put it, away from the default pair
C18_Witness ==
    /\ stage = "sun"
    /\ hist # NoHist
    /\ ~DateOf(hist[1].when).valid
    /\ hist[1].before # SunPosition(DEFAULT_AZ, DEFAULT_ALT)
    /\ dirPosition = SunPosition(DEFAULT_AZ, DEFAULT_ALT)

-----------------------------------------------------------------------------
(* Claims about one tick of an agent *)

\* C22: a tick on an agent whose route is empty leaves its position, yaw,
\* waypoint index, final goal, stuck accumulator and reroute cooldown as they
\* were (hist'[i].to is the agent as update left it, before a periodic reroute
\* of the same frame).
C22_EmptyRouteNoOp ==
    [][\A i \in 1..Len(agents) :
           (hist'[i] # hist[i] /\ hist'[i].updated /\ Len(agents[i].route) = 0)
           => /\ hist'[i].to.pos = agents[i].pos
              /\ hist'[i].to.yaw = agents[i].yaw
              /\ hist'[i].to.routeIdx = agents[i].routeIdx
              /\ hist'[i].to.finalGoal = agents[i].finalGoal
              /\ hist'[i].to.stuckAcc = agents[i].stuckAcc
              /\ hist'[i].to.rerouteCooldown = agents[i].rerouteCooldown
              /\ hist'[i].to.route = agents[i].route]_vars

\* update has run on an agent without a route, which stands where it was built
C22_Witness ==
    \E i \in 1..Len(agents) :
        /\ hist[i].updated
        /\ hist[i].branch = "none"
        /\ Len(hist[i].to.route) = 0
        /\ hist[i].to.pos = Agent(0).pos

\* C23: an agent with a route has 0 <= routeIdx <= route.length - 1.  In a
\* step routeIdx stays, or grows by exactly 1 while the route stays, the
\* agent was within 0.5 (x-z) of the waypoint it was heading for and that
\* waypoint was not the last, or it is 0 after the route was replaced in the
\* step (by a steering reroute, by the periodic reroute of the frame, or by
\* setPolylineRoute on an agent that had no route).
C23_RouteIdxSteps ==
    /\ [](\A i \in 1..Len(agents) :
              Len(agents[i].route) > 0 => (0 <= agents[i].routeIdx /\ agents[i].routeIdx <= Len(agents[i].route) - 1))
    /\ [][\A i \in 1..Len(agents) :
              \/ agents'[i].routeIdx = agents[i].routeIdx
              \/ /\ agents'[i].routeIdx = agents[i].routeIdx + 1
                 /\ agents'[i].route = agents[i].route
                 /\ agents[i].routeIdx < Len(agents[i].route) - 1
                 /\ Length(V3(agents[i].route[agents[i].routeIdx + 1].x - agents[i].pos.x, 0,
                              agents[i].route[agents[i].routeIdx + 1].z - agents[i].pos.z)) < ARRIVE_DIST
              \/ /\ agents'[i].routeIdx = 0
                 /\ \/ Len(agents[i].route) = 0
                    \/ hist'[i].updated /\ hist'[i].tried /\ hist'[i].to.rerouteCooldown = REROUTE_COOLDOWN
                    \/ /\ hist'[i].call.has
                       /\ Len(findRouteOnRoads(ROAD_GRAPH, hist'[i].call.start, hist'[i].call.goal, shadeRef).poly) > 1]_vars

\* an agent that walked to a waypoint, stepped its index to the last waypoint
\* and kept it there while arriving
C23_Witness ==
    \E i \in 1..Len(agents) :
        /\ hist[i].updated
        /\ hist[i].branch = "arrive"
        /\ agents[i].routeIdx > 0
        /\ agents[i].routeIdx = Len(agents[i].route) - 1
        /\ hist[i].from.routeIdx = agents[i].routeIdx

\* C24: a tick that takes the free branch (no obstacle hit closer than the
\* avoid distance) moves the agent toward the waypoint it is heading for by
\* min(speed * delta, d), delta = min(0.033, dt): the x-z distance left is
\* max(0, d - speed * delta), it is not larger than d, and the agent has moved
\* at most speed * 0.033 (distances compared to 0.003, the rounding of the
\* fixed-point grid).
C24_FreeStepCapped ==
    [][\A i \in 1..Len(agents) :
           (hist'[i] # hist[i] /\ hist'[i].updated /\ hist'[i].branch = "free")
           => With(agents[i].route[Min2(agents[i].routeIdx, Len(agents[i].route) - 1) + 1], LAMBDA target :
              With(Length(V3(target.x - agents[i].pos.x, 0, target.z - agents[i].pos.z)), LAMBDA d :
              With(Length(V3(target.x - hist'[i].to.pos.x, 0, target.z - hist'[i].to.pos.z)), LAMBDA left :
              With(RoundDiv(hist'[i].to.speed * Min2(MAX_DELTA, frameDt), 1000), LAMBDA step :
                  /\ hist'[i].to.speed > 0
                  /\ Abs(left - Max2(0, d - step)) <= 3
                  /\ left <= d
                  /\ Length(V3(hist'[i].to.pos.x - agents[i].pos.x, 0, hist'[i].to.pos.z - agents[i].pos.z))
                         <= RoundDiv(hist'[i].to.speed * MAX_DELTA, 1000) + 3))))]_vars

\* a free step that ended on the waypoint itself: the step was capped by the
\* distance left
C24_Witness ==
    \E i \in 1..Len(agents) :
        /\ hist[i].updated
        /\ hist[i].branch = "free"
        /\ hist[i].to.routeIdx > 0
        /\ hist[i].to.pos.x = hist[i].to.route[hist[i].to.routeIdx + 1].x
        /\ hist[i].to.pos.z = hist[i].to.route[hist[i].to.routeIdx + 1].z

-----------------------------------------------------------------------------
(* Claims about the shape of a returned route (SpecRoute) *)

\* C26: a polyline returned by findRouteOnRoads has one point per node of a
\* node path: its first point is the position of a node no farther from the
\* snapped start than any other node, its last point the position of a node no
\* farther from the snapped goal than any other, every two consecutive points
\* are the positions of two nodes joined by an edge, and no node occurs twice.
C26_PolylineFollowsEdges ==
    (lastRoute.called /\ lastRoute.res.ok) =>
        With(lastRoute.res.poly, LAMBDA poly :
        With(lastRoute.res.nodePath, LAMBDA path :
            /\ Len(poly) > 0
            /\ Len(path) = Len(poly)
            /\ \A i \in 1..Len(poly) : path[i] \in 1..Len(ROAD_GRAPH.nodes) /\ poly[i] = ROAD_GRAPH.nodes[path[i]].p
            /\ With(snapToGraph(ROAD_GRAPH, lastRoute.start).q, LAMBDA s :
               With(snapToGraph(ROAD_GRAPH, lastRoute.goal).q, LAMBDA t :
               With(distV(poly[1], s), LAMBDA ds :
               With(distV(poly[Len(poly)], t), LAMBDA dt :
                   \A k \in 1..Len(ROAD_GRAPH.nodes) :
                       /\ ds <= distV(ROAD_GRAPH.nodes[k].p, s)
                       /\ dt <= distV(ROAD_GRAPH.nodes[k].p, t)))))
            /\ \A i \in 1..(Len(poly) - 1) :
                   \E ei \in 1..Len(ROAD_GRAPH.edges) :
                       {ROAD_GRAPH.edges[ei].a, ROAD_GRAPH.edges[ei].b} = {path[i], path[i + 1]}
            /\ \A i, j \in 1..Len(poly) : i # j => (path[i] # path[j] /\ poly[i] # poly[j])))

\* a route of at least three nodes whose ends are not the points asked for
C26_Witness ==
    /\ lastRoute.called
    /\ lastRoute.res.ok
    /\ Len(lastRoute.res.poly) >= 3
    /\ lastRoute.res.poly[1] # lastRoute.start
    /\ lastRoute.res.poly[Len(lastRoute.res.poly)] # lastRoute.goal

\* C27: aStar ends on the graph of a route query, from the start node of the
\* query to every node of the graph as goal and with the shade bias of the
\* query: the while loop is over after at most MaxIters iterations; every edge
\* cost is at least 0.2 times the edge length, which is not negative.
C27_AStarTerminates ==
    (lastRoute.called /\ Len(ROAD_GRAPH.edges) > 0) =>
        With(CostTable(ROAD_GRAPH, lastRoute.shadeBias), LAMBDA costOf :
            /\ \A ei \in 1..Len(ROAD_GRAPH.edges) :
                   /\ ROAD_GRAPH.edges[ei].length >= 0
                   /\ costOf[ei] >= (CostUnit \div 5) * ROAD_GRAPH.edges[ei].length
            /\ \A goal \in 1..Len(ROAD_GRAPH.nodes) :
                   /\ aStar(ROAD_GRAPH, lastRoute.res.nS, goal, costOf).done
                   /\ aStar(ROAD_GRAPH, lastRoute.res.nS, goal, costOf).iters < MaxIters)

\* a query on a graph of two or more edges whose goal node cannot be reached
\* from its start node: the search ran until the open set was empty
C27_Witness ==
    /\ lastRoute.called
    /\ Len(ROAD_GRAPH.edges) >= 2
    /\ lastRoute.res.nS # 0
    /\ ~lastRoute.res.ok
    /\ aStar(ROAD_GRAPH, lastRoute.res.nS, lastRoute.res.nG, CostTable(ROAD_GRAPH, lastRoute.shadeBias)).iters > 1

\* C28: after every step, an agent whose route the step assigned (its waypoint
\* list differs from before; or update ended with the cooldown a steering
\* reroute sets; or the seed or the periodic reroute of the step found a
\* polyline of more than one point for it) stands on the first waypoint of its
\* route at y = 0.05 with routeIdx = 0, every waypoint has y = 0.05, and
\* finalGoal is the last waypoint.
C28_AssignmentRelocates ==
    [][\A a \in {agents'[i] : i \in {k \in 1..Len(agents) : agents'[k].route # agents[k].route}}
            \cup {hist'[i].to : i \in {k \in 1..Len(hist') :
                      hist'[k].updated /\ hist'[k].tried /\ hist'[k].to.rerouteCooldown = REROUTE_COOLDOWN}}
            \cup {agents'[i] : i \in {k \in 1..Len(hist') :
                      /\ hist'[k].call.has
                      /\ Len(findRouteOnRoads(ROAD_GRAPH, hist'[k].call.start, hist'[k].call.goal, shadeRef).poly) > 1}} :
           /\ Len(a.route) > 0
           /\ a.pos = a.route[1]
           /\ a.pos.y = GROUND_Y
           /\ a.routeIdx = 0
           /\ \A k \in 1..Len(a.route) : a.route[k].y = GROUND_Y
           /\ a.finalGoal = [has |-> TRUE, p |-> a.route[Len(a.route)]]]_vars

\* the periodic reroute moved an agent from where update had left it to the
\* first waypoint of its new route
C28_Witness ==
    \E i \in 1..Len(agents) :
        /\ hist[i].updated
        /\ hist[i].call.has
        /\ Len(hist[i].to.route) > 0
        /\ agents[i].route # hist[i].to.route
        /\ agents[i].pos # hist[i].to.pos
        /\ agents[i].pos = agents[i].route[1]

-----------------------------------------------------------------------------
(* An agent walking a route: update is called again and again with a       *)
(* positive dt, the scene has no obstacle closer than the avoid distance    *)
(* to the route, and nothing replaces the route.                            *)

\* one agent set on a straight route or on one with a bend, at the speed of
\* the slowest or of the fastest agent of the application (speed factor 1); an
\* open scene, or one with an obstacle 1.0 beyond the end of the straight route
InitWalk ==
    /\ stage = "walk"
    /\ world \in {[kind |-> "open", x |-> 0, walls |-> <<>>],
                  [kind |-> "open", x |-> 0, walls |-> <<[x |-> 9000, z0 |-> 0 - 3000, z1 |-> 3000]>>]}
    /\ geo = <<>>
    /\ ALL_CURVES = <<>>
    /\ ROAD_GRAPH = EmptyGraph
    /\ resolved = <<>>
    /\ lastRoute = NoCall
    /\ agents \in {<<setPolylineRoute(Agent(s), poly)>> :
                       s \in {speeds[8], speeds[1]},
                       poly \in {<<P(0, 0), P(8000, 0)>>, <<P(0, 0), P(3000, 0), P(3000, 3000)>>}}
    /\ pausedRef = FALSE
    /\ autoRerouteRef = FALSE
    /\ speedRef = 10
    /\ shadeRef = 0
    /\ rerouteAcc = 0
    /\ frameDt \in TickTimes
    /\ rng = NoRandom
    /\ rounds = 0
    /\ ticks = 0
    /\ hist = <<NewHist>>
    /\ roadsFetch = FetchOk
    /\ LifeIdle
    /\ SunIdle
    /\ PickIdle

\* agent.update(dt, raycaster, world); ticks counts the calls modulo 2
Walk ==
    /\ stage = "walk"
    /\ ticks' = (ticks + 1) % 2
    /\ agents' = <<update(agents[1], frameDt, world, [passed |-> FALSE, g |-> ROAD_GRAPH], 0, raycaster)>>
    /\ raycaster' = raycasterAfterUpdate(raycaster, updateTrace(agents[1], frameDt, world,
                                                               [passed |-> FALSE, g |-> ROAD_GRAPH], 0, raycaster))
    /\ UNCHANGED <<routeEditMode, pickSource>>
    /\ hist' = <<AfterUpdate(hist[1], agents[1],
                             updateTrace(agents[1], frameDt, world, [passed |-> FALSE, g |-> ROAD_GRAPH], 0, raycaster),
                             Min2(MAX_DELTA, frameDt))>>
    /\ UNCHANGED <<stage, lastRoute, pausedRef, autoRerouteRef, speedRef, shadeRef, rerouteAcc, frameDt,
                   rng, rounds>>
    /\ UNCHANGED graphVars
    /\ UNCHANGED lifeVars
    /\ UNCHANGED sunVars

\* update keeps being called: the loop that drives the agent requests a new
\* frame at the end of each one, so the count of calls keeps changing
SpecWalk == InitWalk /\ [][Walk]_vars /\ WF_ticks(stage = "walk" /\ ticks' = (ticks + 1) % 2)

\* the agent is within 0.5 (x-z) of its last waypoint and heads for it
Arrived ==
    /\ agents[1].routeIdx = Len(agents[1].route) - 1
    /\ Length(V3(agents[1].route[Len(agents[1].route)].x - agents[1].pos.x, 0,
                 agents[1].route[Len(agents[1].route)].z - agents[1].pos.z)) < ARRIVE_DIST

\* C29: an agent with a route that is ticked with dt > 0 and speed > 0, never
\* probes an obstacle inside the avoid distance and keeps its route, comes
\* within 0.5 (x-z) of its last waypoint with routeIdx = route.length - 1 and
\* stays so; and once it is there no tick moves it.
C29_EventuallyArrives ==
    /\ <>[]Arrived
    /\ [][Arrived => agents'[1].pos = agents[1].pos]_vars
    /\ [](frameDt > 0 /\ agents[1].speed > 0 /\ (hist[1].updated => hist[1].branch \in {"free", "arrive"}))

\* the agent has walked the route with the bend and a tick found it arrived
C29_Witness ==
    /\ stage = "walk"
    /\ hist[1].updated
    /\ hist[1].branch = "arrive"
    /\ Len(agents[1].route) = 3
    /\ agents[1].routeIdx = Len(agents[1].route) - 1
    /\ hist[1].from.routeIdx = agents[1].routeIdx
    /\ Length(V3(agents[1].route[3].x - agents[1].pos.x, 0, agents[1].route[3].z - agents[1].pos.z)) < ARRIVE_DIST

-----------------------------------------------------------------------------
(* The occlusion cap of the field of view.                                 *)

\* C25: after a tick that reached _updateFOVSurface the occlusion cap is
\* visible exactly when some ray of the fan hit an obstacle closer than
\* fovRadius, and it is then placed at the smallest such hit distance.
C25_CapAtNearestHit ==
    \A i \in 1..Len(agents) :
        hist[i].updated /\ hist[i].branch # "none" /\ agents[i] = hist[i].to
            => With(fanMinHitNearest(agents[i], world), LAMBDA m :
                   /\ agents[i].occlCap.visible <=> (m < Infinity /\ m < FOV_RADIUS)
                   /\ agents[i].occlCap.visible => agents[i].occlCap.z = m)

-----------------------------------------------------------------------------
(* The agents of one frame and the raycaster they share.                   *)

\* the orders in which n agents can be updated
Orders(n) == {o \in [1..n -> 1..n] : \A i \in 1..n, j \in 1..n : i # j => o[i] # o[j]}

\* the loop over the agents taken in the order o, from its k-th agent on
RECURSIVE UpdateAgentsIn(_, _, _, _, _)
UpdateAgentsIn(o, as, hs, rc, k) ==
    IF k > Len(as) THEN [agents |-> as, raycaster |-> rc]
    ELSE With(UpdateAgent(as[o[k]], hs[o[k]], rc), LAMBDA u :
             UpdateAgentsIn(o, [as EXCEPT ![o[k]] = u.a], hs, u.rc, k + 1))

\* C21: a frame that updates the agents leaves the road graph as it was, and
\* every agent comes out of its update (position, yaw, route, waypoint index,
\* stuck and cooldown times, occlusion cap) as it would for every other order
\* of the loop over the agents, although all updates cast through one raycaster.
C21_OrderIndependent ==
    [][(Len(hist') = Len(hist) /\ \E i \in 1..Len(hist) : hist'[i] # hist[i] /\ hist'[i].updated)
          => /\ ROAD_GRAPH' = ROAD_GRAPH
             /\ \A o \in Orders(Len(agents)) :
                    With(UpdateAgentsIn(o, agents, hist, raycaster, 1).agents, LAMBDA as :
                        \A i \in 1..Len(agents) : as[i] = hist'[i].to)]_vars

\* a frame in which one agent's probe met the wall while another walked freely
C21_Witness ==
    /\ stage = "run"
    /\ Len(agents) = AGENT_COUNT
    /\ \E i \in 1..Len(hist) : hist[i].updated /\ hist[i].branch \in {"avoid", "stop"}
    /\ \E j \in 1..Len(hist) : hist[j].updated /\ hist[j].branch = "free"

-----------------------------------------------------------------------------
(* Manual route picking: the button, then the clicks on the canvas.        *)

SpecPick == InitRoads /\ [][NextRoads \/ StartPick]_vars

\* C30: manual route picking goes off -> source -> dest -> off.  A click on a
\* ground point while the mode is "source" records the point as the source
\* and moves the mode to "dest"; a click while the mode is "dest" gives agent 0
\* the route found from the source to the point when it has more than one
\* waypoint, forgets the source and moves the mode to "off"; a click while the
\* mode is "off" changes no agent's route.
C30_PickProtocol ==
    /\ [][(Click /\ routeEditMode = "source") => (routeEditMode' = "dest" /\ pickSource'.has)]_vars
    /\ [][(Click /\ routeEditMode = "dest")
            => /\ routeEditMode' = "off"
               /\ ~pickSource'.has
               /\ \E p \in RoutePoints :
                      With(findRouteOnRoads(ROAD_GRAPH, pickSource.p, p, shadeRef), LAMBDA res :
                          IF res.ok /\ Len(res.poly) > 1 /\ Len(agents) > 0
                          THEN agents' = [agents EXCEPT ![1] = setPolylineRoute(agents[1], res.poly)]
                          ELSE agents' = agents)]_vars
    /\ [][(Click /\ routeEditMode = "off")
            => \A i \in 1..Len(agents) : agents'[i].route = agents[i].route]_vars

=============================================================================
